---------------------------- MODULE Spec2Model ----------------------------
(***************************************************************************)
(* State-machine model of the Bang & Olufsen media-player entity           *)
(* (custom_components/bangolufsen/media_player.py): its push-notification  *)
(* handlers, volume commands, Beolink group state and Beolink command      *)
(* relay over the dispatcher.                                              *)
(*                                                                         *)
(* Python's Optional values are modelled as sequences of length 0 or 1:    *)
(* None is <<>> and a present value x is <<x>>.  A dict is a function      *)
(* from its keys to its values.                                            *)
(***************************************************************************)
EXTENDS Integers, Sequences, FiniteSets, TLC

None == <<>>
Some(x) == <<x>>

Min(a, b) == IF a <= b THEN a ELSE b
Max(a, b) == IF a >= b THEN a ELSE b

EmptyDict == [k \in {} |-> None]
DictPut(d, k, v) == [x \in (DOMAIN d) \cup {k} |-> IF x = k THEN v ELSE d[x]]

(***************************************************************************)
(* Bounds of the model.                                                    *)
(***************************************************************************)
\* Largest configured volume step explored (CONF_VOLUME_STEP).
MaxStep == 3
\* Longest listener list a device reports.
MaxList == 2
\* Longest peer list a device reports.
MaxPeers == 1
\* Most dispatcher messages in flight at once.
MaxBus == 2

\* The device reports volume levels 0..100 (VolumeLevel.level).
MaxLevel == 100

Levels == 0 .. MaxLevel
VolumeSteps == 1 .. MaxStep
\* Configured maxima explored (CONF_MAX_VOLUME).
MaxVolumes == {20, 70, MaxLevel}

(***************************************************************************)
(* The entities of the platform.  Each has a Beolink JID; serial "x" is a  *)
(* device with no media_player entity in the registry.                     *)
(***************************************************************************)
Entities == {"a", "b", "c"}
Serials == Entities \cup {"x"}
\* A Beolink JID "<type>.<item>.<serial>@products.bang-olufsen.com", kept
\* as the sequence of its dot-separated parts with the "@" suffix dropped.
Jid(serial) == <<"1111", "2222222", serial>>
Jids == {Jid(s) : s \in Serials}
beolink_jid(e) == Jid(e)

\* SOURCE_ENUM members used by the entity.
SourceLineIn == "Line-In"
SourceUriStreamer == "Audio Streamer"
SourceBluetooth == "Bluetooth"
SourceSpdif == "Optical"
SourceChromeCast == "Chromecast built-in"
SourceDeezer == "Deezer"

\* The entity registry: every entity of Entities is registered under its
\* serial number as unique id; the foreign device is not.
entity_id(e) ==
    CASE e = "a" -> "media_player.a"
      [] e = "b" -> "media_player.b"
      [] e = "c" -> "media_player.c"

\* Friendly name a device announces for itself to its peers.
PeerName(serial) ==
    CASE serial = "a" -> "Beosound A"
      [] serial = "b" -> "Beosound B"
      [] serial = "c" -> "Beosound C"
      [] serial = "x" -> "Beosound X"

\* BeolinkPeer / BeolinkLeader as the vendor API reports them.
Peer(serial) == [friendly_name |-> PeerName(serial), jid |-> Jid(serial)]

\* PlaybackContentMetadata() and Source() as constructed empty.
EmptyMetadata == [title |-> "None", art |-> "none", remote_leader |-> None]
EmptySource == [id |-> "None", name |-> "None"]

VARIABLES
    attached,            \* async_added_to_hass has run: [Entities -> BOOLEAN]
    max_volume,          \* _max_volume
    volume_step,         \* _volume_step
    volume,              \* _volume.level.level (Optional)
    playback_metadata,   \* _playback_metadata
    source_change,       \* _source_change
    friendly_name,       \* _friendly_name
    remote_leader,       \* _remote_leader (Optional BeolinkLeader)
    beolink_listeners,   \* _beolink_listeners, as the listeners' JIDs
    beolink_attribute,   \* _beolink_attribute["beolink"]
    attr_group_members,  \* _attr_group_members
    bus,                 \* dispatcher messages sent and not yet delivered
    tasks,               \* the _beolink_expand tasks created, in order
    now,                 \* the time, in ticks
    request_time,        \* when the device last got an expand/unexpand
    audio_sources,       \* _audio_sources: id -> name
    video_sources,       \* _video_sources: menu key -> label
    sources,             \* _sources
    attr_source_list,    \* _attr_source_list: the advertised labels (Optional)
    selects,             \* the sound-mode and listening-position selects
    playback_progress,   \* _playback_progress.progress (Optional)
    playback_state,      \* _playback_state.value (Optional)
    state,               \* _state
    writes,              \* async_write_ha_state calls of the latest handler
    calls,               \* commands the latest handler sent to the device
    sent,                \* dispatcher messages the latest handler sent
    last                 \* the latest handler invocation and its inputs

vars == <<attached, max_volume, volume_step, volume, playback_metadata,
          source_change, friendly_name, remote_leader, beolink_listeners,
          beolink_attribute, attr_group_members, bus, tasks, now,
          request_time, audio_sources, video_sources, sources,
          attr_source_list, selects, playback_progress, playback_state,
          state, writes, calls, sent, last>>

config == <<max_volume, volume_step>>
beolink_state == <<remote_leader, beolink_listeners, beolink_attribute,
                   attr_group_members>>
snapshot == <<playback_metadata, source_change, friendly_name>>
pending == <<bus, tasks>>
clock == <<now, request_time>>
catalogs == <<audio_sources, video_sources, sources, attr_source_list>>
playback == <<playback_progress, playback_state, state>>

Last(op, e, args) == [op |-> op, e |-> e, args |-> args]
NoArgs == [none |-> TRUE]

(***************************************************************************)
(* Python floats.  A volume is a float in [0, 1]; the model keeps the      *)
(* decimal it denotes in hundredths (h) and whether the IEEE double lies   *)
(* just below that decimal (under), which is what int(volume * 100)        *)
(* depends on: int(0.29 * 100) = 28, int(0.57 * 100) = 56 and              *)
(* int(0.58 * 100) = 57 are the only such cases among 0.00 .. 1.00.        *)
(***************************************************************************)
TruncatedHundredths == {29, 57, 58}
\* float(level / 100) and float("<h/100>"): the double nearest the decimal.
FloatOfHundredths(h) == [h |-> h, under |-> h \in TruncatedHundredths]
\* int(volume * 100)
IntTimes100(f) == IF f.under THEN f.h - 1 ELSE f.h

\* A command sent to the device through the vendor client, with the level
\* or the JID it carries.
VendorCall(e, name, level, jid) ==
    [e |-> e, call |-> name, level |-> level, jid |-> jid, id |-> None,
     position_ms |-> None]
LevelCall(e, name, level) == VendorCall(e, name, Some(level), None)
JidCall(e, name, jid) == VendorCall(e, name, None, Some(jid))
\* A command that carries a source id or a remote-menu key.
IdCall(e, name, id) ==
    [VendorCall(e, name, None, None) EXCEPT !.id = Some(id)]
\* The seek command.
SeekCall(e, position_ms) ==
    [VendorCall(e, "seek_to_position", None, None)
        EXCEPT !.position_ms = Some(position_ms)]

(***************************************************************************)
(* The source property: three overrides atop the last source change.       *)
(***************************************************************************)
SourceOfArtworkFirst(md, sc) ==
    IF md.title = SourceLineIn THEN SourceLineIn
    ELSE IF md.title = SourceBluetooth THEN SourceBluetooth
    ELSE IF md.art = "empty" /\ sc.name = SourceBluetooth
         THEN SourceBluetooth
    ELSE IF sc.id \in {SourceBluetooth, SourceLineIn, SourceSpdif}
         THEN SourceChromeCast
    ELSE sc.name
SourceOf(md, sc) ==
    IF md.title = SourceLineIn THEN SourceLineIn
    ELSE IF md.title = SourceBluetooth THEN SourceBluetooth
    ELSE IF sc.id \in {SourceBluetooth, SourceLineIn, SourceSpdif}
         THEN SourceChromeCast
    ELSE IF md.art = "empty" /\ sc.name = SourceBluetooth
         THEN SourceBluetooth
    ELSE sc.name

source(e) == SourceOf(playback_metadata[e], source_change[e])

\* The media_position property: no progress is shown on a Beolink listener.
media_position(e) ==
    IF remote_leader[e] = None THEN playback_progress[e] ELSE None

(***************************************************************************)
(* _get_entity_id_from_jid: the serial number is the third dot-separated   *)
(* part of the JID; the registry returns None for an unknown unique id.    *)
(***************************************************************************)
get_entity_id_from_jid(jid) ==
    IF jid[3] \in Entities THEN Some(entity_id(jid[3])) ELSE None

(***************************************************************************)
(* _update_beolink, in the order of the code.                              *)
(***************************************************************************)
\* for peer in peers: attribute["peers"][peer.friendly_name] = peer.jid
RECURSIVE PeersDict(_)
PeersDict(peers) ==
    IF peers = <<>> THEN EmptyDict
    ELSE LET n == Len(peers)
         IN DictPut(PeersDict(SubSeq(peers, 1, n - 1)),
                    peers[n].friendly_name, peers[n].jid)

\* the first peer with the given JID (the inner loop and its break)
RECURSIVE FirstPeerWithJid(_, _)
FirstPeerWithJid(peers, jid) ==
    IF peers = <<>> THEN None
    ELSE IF Head(peers).jid = jid THEN Some(Head(peers))
    ELSE FirstPeerWithJid(Tail(peers), jid)

\* beolink_listeners[peer.friendly_name] = beolink_listener.jid
RECURSIVE ListenersDict(_, _)
ListenersDict(listeners, peers) ==
    IF listeners = <<>> THEN EmptyDict
    ELSE LET n == Len(listeners)
             rest == ListenersDict(SubSeq(listeners, 1, n - 1), peers)
             p == FirstPeerWithJid(peers, listeners[n])
         IN IF p = None THEN rest
            ELSE DictPut(rest, p[1].friendly_name, listeners[n])

\* self._remote_leader after the line-in / URI-streamer override
RemoteLeaderKeepingMetadata(md, sc) == md.remote_leader
RemoteLeaderOf(md, sc) ==
    IF SourceOf(md, sc) \in {SourceLineIn, SourceUriStreamer}
    THEN None
    ELSE md.remote_leader

\* group_members.append(cast(str, self._get_entity_id_from_jid(...)))
RECURSIVE ListenerEntityIds(_)
ListenerEntityIds(listeners) ==
    IF listeners = <<>> THEN <<>>
    ELSE <<get_entity_id_from_jid(Head(listeners))>>
         \o ListenerEntityIds(Tail(listeners))

GroupMembersSelfAlways(e, leader, listeners) ==
    IF leader # None
    THEN <<get_entity_id_from_jid(leader[1].jid),
           get_entity_id_from_jid(beolink_jid(e))>>
    ELSE <<get_entity_id_from_jid(beolink_jid(e))>>
         \o ListenerEntityIds(listeners)
GroupMembersStaleWhenSolo(e, leader, listeners) ==
    IF leader # None
    THEN <<get_entity_id_from_jid(leader[1].jid),
           get_entity_id_from_jid(beolink_jid(e))>>
    ELSE IF Len(listeners) > 0
    THEN <<get_entity_id_from_jid(beolink_jid(e))>>
         \o ListenerEntityIds(listeners)
    ELSE attr_group_members[e]
GroupMembers(e, leader, listeners) ==
    IF leader # None
    THEN <<get_entity_id_from_jid(leader[1].jid),
           get_entity_id_from_jid(beolink_jid(e))>>
    ELSE IF Len(listeners) > 0
    THEN <<get_entity_id_from_jid(beolink_jid(e))>>
         \o ListenerEntityIds(listeners)
    ELSE <<>>

\* self._beolink_attribute["beolink"]
BeolinkAttributeOnto(old, e, fn, peers, leader, listeners) ==
    LET self == DictPut(old, "self", DictPut(EmptyDict, fn, beolink_jid(e)))
        withPeers == IF Len(peers) > 0
                     THEN DictPut(self, "peers", PeersDict(peers))
                     ELSE self
    IN IF leader # None
       THEN DictPut(withPeers, "leader",
                    DictPut(EmptyDict, leader[1].friendly_name, leader[1].jid))
       ELSE IF Len(listeners) > 0
       THEN DictPut(withPeers, "listeners", ListenersDict(listeners, peers))
       ELSE withPeers

BeolinkAttributePatched(e, fn, peers, leader, listeners) ==
    BeolinkAttributeOnto(beolink_attribute[e], e, fn, peers, leader, listeners)
BeolinkAttribute(e, fn, peers, leader, listeners) ==
    BeolinkAttributeOnto(EmptyDict, e, fn, peers, leader, listeners)

\* The listeners are fetched only when the entity is not a listener.
FetchesListeners(md, sc) == RemoteLeaderOf(md, sc) = None

update_beolink(e, md, sc, fn, peers, fetched) ==
    LET leader == RemoteLeaderOf(md, sc)
    IN /\ remote_leader' = [remote_leader EXCEPT ![e] = leader]
       /\ beolink_listeners' =
              [beolink_listeners EXCEPT
                  ![e] = IF leader # None THEN @ ELSE fetched]
       /\ beolink_attribute' =
              [beolink_attribute EXCEPT
                  ![e] = BeolinkAttribute(e, fn, peers, leader, fetched)]
       /\ attr_group_members' =
              [attr_group_members EXCEPT
                  ![e] = GroupMembers(e, leader, fetched)]

(***************************************************************************)
(* Python dicts whose order matters, as sequences of <<key, value>> pairs  *)
(* with distinct keys, in insertion order.                                 *)
(***************************************************************************)
Keys(od) == [i \in DOMAIN od |-> od[i][1]]
Values(od) == [i \in DOMAIN od |-> od[i][2]]
InSeq(x, seq) == \E i \in DOMAIN seq : seq[i] = x
HasKey(od, k) == InSeq(k, Keys(od))
\* od[k] for a key the dict has
Get(od, k) == od[CHOOSE i \in DOMAIN od : od[i][1] = k][2]
\* od[k] = v: a new key is appended, a known key keeps its place
Put(od, k, v) ==
    IF HasKey(od, k)
    THEN [i \in DOMAIN od |-> IF od[i][1] = k THEN <<k, v>> ELSE od[i]]
    ELSE Append(od, <<k, v>>)
\* a | b
RECURSIVE Merge(_, _)
Merge(a, b) ==
    IF b = <<>> THEN a
    ELSE Merge(Put(a, Head(b)[1], Head(b)[2]), Tail(b))

(***************************************************************************)
(* _update_sources.                                                        *)
(***************************************************************************)
\* mozart_api Source and RemoteMenuItem, with the fields the code reads;
\* tv stands for the test on the content categories of the menu item.
Source(id, name, is_enabled) ==
    [id |-> id, name |-> name, is_enabled |-> is_enabled]
MenuItem(key, label, available, tv) ==
    [key |-> key, label |-> label, available |-> available, tv |-> tv]

\* HIDDEN_SOURCE_IDS and FALLBACK_SOURCES of const.py
HiddenSourceIds == {"classicsAdapter"}
FallbackSources ==
    <<Source("uriStreamer", SourceUriStreamer, TRUE),
      Source("lineIn", SourceLineIn, TRUE)>>

\* What get_available_sources gives: the items, or ValueError raised.
SourcesResponse(items) == [raised |-> FALSE, items |-> items]
OutdatedApi == [raised |-> TRUE, items |-> <<>>]

\* self._audio_sources = {source.id: source.name for ... if ...}
RECURSIVE AudioSourcesOf(_)
AudioSourcesOf(items) ==
    IF items = <<>> THEN <<>>
    ELSE LET n == Len(items)
             src == items[n]
             rest == AudioSourcesOf(SubSeq(items, 1, n - 1))
         IN IF /\ src.is_enabled
               /\ src.id # ""
               /\ src.name # ""
               /\ src.id \notin HiddenSourceIds
            THEN Put(rest, src.id, src.name)
            ELSE rest

\* for key in menu_items: ... self._video_sources[key] = menu_item.label
RECURSIVE VideoSourcesOnto(_, _)
VideoSourcesOnto(old, menu) ==
    IF menu = <<>> THEN old
    ELSE LET item == Head(menu)
         IN IF /\ item.available
               /\ item.tv
               /\ item.label # ""
               /\ item.label # "TV"
            THEN VideoSourcesOnto(Put(old, item.key, item.label), Tail(menu))
            ELSE VideoSourcesOnto(old, Tail(menu))

update_sources(e, response, menu) ==
    LET items == IF response.raised THEN FallbackSources ELSE response.items
        audio == AudioSourcesOf(items)
        video == VideoSourcesOnto(video_sources[e], menu)
    IN /\ audio_sources' = [audio_sources EXCEPT ![e] = audio]
       /\ video_sources' = [video_sources EXCEPT ![e] = video]
       /\ sources' = [sources EXCEPT ![e] = Merge(audio, video)]

\* _update_sources as the handler of the REMOTE_MENU_CHANGED notification;
\* the state is written when the platform is running (hass.is_running).
UpdateSources(e, response, menu) ==
    /\ attached[e]
    /\ update_sources(e, response, menu)
    /\ UNCHANGED attr_source_list
    /\ writes' \in {0, 1}
    /\ calls' = <<>>
    /\ sent' = <<>>
    /\ last' = Last("update_sources", e,
                    [response |-> response, menu |-> menu])
    /\ UNCHANGED <<attached, config, volume, snapshot, beolink_state,
                   pending, clock, selects, playback>>

(***************************************************************************)
(* _initialize and async_added_to_hass: the product state is fetched once, *)
(* the group state computed, and the dispatchers connected.                *)
(***************************************************************************)
\* The steps of the attach in the order they run, the last one being the
\* dispatcher connections of async_added_to_hass.
InitializeStepsSubscribingFirst ==
    <<"async_dispatcher_connect", "get_softwareupdate_status",
      "get_beolink_self", "set_volume_settings", "get_product_state",
      "update_sources", "update_beolink", "update_bluetooth">>
InitializeSteps ==
    <<"get_softwareupdate_status", "get_beolink_self", "set_volume_settings",
      "get_product_state", "update_sources", "update_beolink",
      "update_bluetooth", "async_dispatcher_connect">>

\* The channels async_added_to_hass connects: the notification, and
\* whether the topic starts with the unique id or with the Beolink JID of
\* the entity.
Channel(e, by, notification) ==
    [of |-> e, by |-> by, notification |-> notification]
DeviceChannels(e) ==
    [i \in 1 .. 10 |->
        Channel(e, "unique_id",
                <<"PLAYBACK_METADATA", "PLAYBACK_ERROR", "PLAYBACK_PROGRESS",
                  "PLAYBACK_STATE", "SOURCE_CHANGE", "VOLUME",
                  "REMOTE_MENU_CHANGED", "CONFIGURATION",
                  "BLUETOOTH_DEVICES", "BEOLINK">>[i])]
JidChannels(e) ==
    [i \in 1 .. 4 |->
        Channel(e, "beolink_jid",
                <<"BEOLINK_LEADER_COMMAND", "BEOLINK_LISTENER_COMMAND",
                  "BEOLINK_VOLUME", "BEOLINK_RELATIVE_VOLUME">>[i])]

\* The value of a rendering state, "" standing for a value that is not set.
StateAfter(old, pstate) ==
    IF pstate # None /\ pstate[1] # "" THEN pstate[1] ELSE old

\* The attach with everything the device answers: friendly name, the
\* product state (volume, metadata, source, progress, rendering state;
\* None or the empty value for a part that is not reported), the sources
\* and the remote menu, the peers and the listeners.
InitializeWith(e, name, level, md, sc, prog, pstate, resp, menu, peers, fetched) ==
    /\ ~attached[e]
    /\ FetchesListeners(md, sc) \/ fetched = <<>>
    /\ attached' = [attached EXCEPT ![e] = TRUE]
    /\ friendly_name' = [friendly_name EXCEPT ![e] = name]
    /\ volume' = [volume EXCEPT ![e] = level]
    /\ playback_metadata' = [playback_metadata EXCEPT ![e] = md]
    /\ source_change' = [source_change EXCEPT ![e] = sc]
    /\ playback_progress' =
           [playback_progress EXCEPT
               ![e] = IF prog # None THEN prog ELSE @]
    /\ playback_state' =
           [playback_state EXCEPT ![e] = IF pstate # None THEN pstate ELSE @]
    /\ state' = [state EXCEPT ![e] = StateAfter(@, pstate)]
    /\ update_sources(e, resp, menu)
    /\ update_beolink(e, md, sc, name, peers, fetched)
    /\ attr_source_list' =
           [attr_source_list EXCEPT ![e] = Some(Values(sources'[e]))]
    /\ calls' = <<LevelCall(e, "set_volume_settings", max_volume[e])>>
    /\ sent' = <<>>
    /\ writes' \in {0, 1}
    /\ last' = Last("initialize", e,
                    [peers |-> peers, listeners |-> fetched,
                     product_state |->
                         [volume |-> level, metadata |-> md, source |-> sc,
                          progress |-> prog, state |-> pstate],
                     steps |-> InitializeSteps,
                     channels |-> DeviceChannels(e) \o JidChannels(e)])
    /\ UNCHANGED <<config, pending, clock, selects>>

\* The attach to a device that reports no progress, no rendering state, no
\* source and no remote menu item.
Initialize(e, name, level, md, sc, peers, fetched) ==
    InitializeWith(e, name, level, md, sc, None, None,
                   SourcesResponse(<<>>), <<>>, peers, fetched)

(***************************************************************************)
(* Push-notification handlers.                                             *)
(***************************************************************************)
\* _update_playback_metadata
UpdatePlaybackMetadata(e, data, peers, fetched) ==
    /\ attached[e]
    /\ FetchesListeners(data, source_change[e]) \/ fetched = <<>>
    /\ playback_metadata' = [playback_metadata EXCEPT ![e] = data]
    /\ update_beolink(e, data, source_change[e], friendly_name[e],
                      peers, fetched)
    /\ calls' = <<>>
    /\ sent' = <<>>
    /\ writes' = 1
    /\ last' = Last("update_playback_metadata", e,
                    [data |-> data, peers |-> peers, listeners |-> fetched])
    /\ UNCHANGED <<attached, config, volume, source_change, friendly_name,
                   pending, clock, catalogs, selects, playback>>

\* _update_beolink as the handler of the BEOLINK notification
UpdateBeolink(e, peers, fetched) ==
    /\ attached[e]
    /\ FetchesListeners(playback_metadata[e], source_change[e])
           \/ fetched = <<>>
    /\ update_beolink(e, playback_metadata[e], source_change[e],
                      friendly_name[e], peers, fetched)
    /\ calls' = <<>>
    /\ sent' = <<>>
    /\ writes' = 0
    /\ last' = Last("update_beolink", e,
                    [peers |-> peers, listeners |-> fetched])
    /\ UNCHANGED <<attached, config, volume, snapshot, pending, clock,
                   catalogs, selects, playback>>

\* _update_friendly_name
UpdateFriendlyName(e, name, peers, fetched) ==
    /\ attached[e]
    /\ FetchesListeners(playback_metadata[e], source_change[e])
           \/ fetched = <<>>
    /\ friendly_name' = [friendly_name EXCEPT ![e] = name]
    /\ update_beolink(e, playback_metadata[e], source_change[e], name,
                      peers, fetched)
    /\ calls' = <<>>
    /\ sent' = <<>>
    /\ writes' = 0
    /\ last' = Last("update_friendly_name", e,
                    [peers |-> peers, listeners |-> fetched])
    /\ UNCHANGED <<attached, config, volume, playback_metadata,
                   source_change, pending, clock, catalogs, selects,
                   playback>>

\* _update_source_change
UpdateSourceChange(e, data) ==
    /\ attached[e]
    /\ source_change' = [source_change EXCEPT ![e] = data]
    /\ calls' = <<>>
    /\ sent' = <<>>
    /\ writes' = IF data.id = SourceBluetooth THEN 1 ELSE 0
    /\ last' = Last("update_source_change", e, [data |-> data])
    /\ UNCHANGED <<attached, config, volume, playback_metadata,
                   friendly_name, beolink_state, pending, clock, catalogs,
                   selects, playback>>

\* _update_playback_progress; data holds the progress in seconds
UpdatePlaybackProgress(e, data) ==
    /\ attached[e]
    /\ playback_progress' = [playback_progress EXCEPT ![e] = data]
    /\ calls' = <<>>
    /\ sent' = <<>>
    /\ writes' = 1
    /\ last' = Last("update_playback_progress", e, [data |-> data])
    /\ UNCHANGED <<attached, config, volume, snapshot, beolink_state,
                   pending, clock, catalogs, selects, playback_state, state>>

\* _update_playback_state; data holds the value of the rendering state
UpdatePlaybackState(e, data) ==
    /\ attached[e]
    /\ playback_state' = [playback_state EXCEPT ![e] = data]
    /\ state' = [state EXCEPT ![e] = StateAfter(@, data)]
    /\ calls' = <<>>
    /\ sent' = <<>>
    /\ writes' = IF data[1] # "" THEN 1 ELSE 0
    /\ last' = Last("update_playback_state", e, [data |-> data])
    /\ UNCHANGED <<attached, config, volume, snapshot, beolink_state,
                   pending, clock, catalogs, selects, playback_progress>>

\* _update_volume
UpdateVolumeUnlessMuted(e, data) ==
    /\ attached[e]
    /\ volume' = [volume EXCEPT ![e] = IF data = Some(0) THEN @ ELSE data]
    /\ calls' = <<>>
    /\ sent' = <<>>
    /\ writes' = 1
    /\ last' = Last("update_volume", e, [data |-> data])
    /\ UNCHANGED <<attached, config, snapshot, beolink_state, pending, clock,
                   catalogs, selects, playback>>
UpdateVolume(e, data) ==
    /\ attached[e]
    /\ volume' = [volume EXCEPT ![e] = data]
    /\ calls' = <<>>
    /\ sent' = <<>>
    /\ writes' = 1
    /\ last' = Last("update_volume", e, [data |-> data])
    /\ UNCHANGED <<attached, config, snapshot, beolink_state, pending, clock,
                   catalogs, selects, playback>>

(***************************************************************************)
(* volume_level property and the volume commands.                          *)
(***************************************************************************)
volume_level(e) ==
    IF volume[e] # None /\ volume[e][1] # 0
    THEN Some(FloatOfHundredths(volume[e][1]))
    ELSE None

\* new_volume of async_volume_up
VolumeUpLevelUnclamped(e) == volume[e][1] + volume_step[e]
VolumeUpLevel(e) == Min(volume[e][1] + volume_step[e], max_volume[e])

\* new_volume of async_volume_down
VolumeDownLevelMaxClamped(e) ==
    Min(Max(volume[e][1] - volume_step[e], 0), max_volume[e])
VolumeDownLevel(e) == Max(volume[e][1] - volume_step[e], 0)

\* async_volume_up: the commands it sends to the device
VolumeUpCalls(e) ==
    IF volume[e] = None \/ volume[e][1] = 0
    THEN <<>>
    ELSE <<LevelCall(e, "set_current_volume_level", VolumeUpLevel(e))>>

AsyncVolumeUp(e) ==
    /\ attached[e]
    /\ calls' = VolumeUpCalls(e)
    /\ sent' = <<>>
    /\ writes' = 0
    /\ last' = Last("volume_up", e, NoArgs)
    /\ UNCHANGED <<attached, config, volume, snapshot, beolink_state,
                   pending, clock, catalogs, selects, playback>>

\* async_volume_down: the commands it sends to the device
VolumeDownCalls(e) ==
    IF volume[e] = None \/ volume[e][1] = 0
    THEN <<>>
    ELSE <<LevelCall(e, "set_current_volume_level", VolumeDownLevel(e))>>

AsyncVolumeDown(e) ==
    /\ attached[e]
    /\ calls' = VolumeDownCalls(e)
    /\ sent' = <<>>
    /\ writes' = 0
    /\ last' = Last("volume_down", e, NoArgs)
    /\ UNCHANGED <<attached, config, volume, snapshot, beolink_state,
                   pending, clock, catalogs, selects, playback>>

\* The select entities as constructed: no options, no current option.
NoSelects ==
    [sound_modes |-> <<>>, sound_options |-> <<>>,
     sound_current |-> None,
     listening_positions |-> <<>>, position_options |-> <<>>,
     position_current |-> None]

(***************************************************************************)
(* The state after construction (__init__), before the entity is attached. *)
(***************************************************************************)
Constructed(maxima, steps) ==
    /\ attached = [e \in Entities |-> FALSE]
    /\ \E m \in maxima : max_volume = [e \in Entities |-> m]
    /\ \E s \in steps : volume_step = [e \in Entities |-> s]
    /\ volume = [e \in Entities |-> None]
    /\ playback_metadata = [e \in Entities |-> EmptyMetadata]
    /\ source_change = [e \in Entities |-> EmptySource]
    /\ friendly_name = [e \in Entities |-> ""]
    /\ remote_leader = [e \in Entities |-> None]
    /\ beolink_listeners = [e \in Entities |-> <<>>]
    /\ beolink_attribute = [e \in Entities |-> EmptyDict]
    /\ attr_group_members = [e \in Entities |-> <<>>]
    /\ bus = <<>>
    /\ tasks = <<>>
    /\ now = 0
    /\ request_time = [e \in Entities |-> None]
    /\ audio_sources = [e \in Entities |-> EmptyDict]
    /\ video_sources = [e \in Entities |-> EmptyDict]
    /\ sources = [e \in Entities |-> EmptyDict]
    /\ attr_source_list = [e \in Entities |-> None]
    /\ selects = NoSelects
    /\ playback_progress = [e \in Entities |-> None]
    /\ playback_state = [e \in Entities |-> None]
    /\ state = [e \in Entities |-> "idle"]
    /\ writes = 0
    /\ calls = <<>>
    /\ sent = <<>>
    /\ last = Last("construct", "a", NoArgs)

(***************************************************************************)
(* SpecVolume: one entity, every reported level, the volume commands.      *)
(***************************************************************************)
ReportedVolumes == {None} \cup {Some(l) : l \in Levels}

InitVolume == Constructed(MaxVolumes, VolumeSteps)

NextVolume ==
    \/ \E level \in ReportedVolumes :
           Initialize("a", "Beosound A", level, EmptyMetadata, EmptySource,
                      <<>>, <<>>)
    \/ \E level \in ReportedVolumes : UpdateVolume("a", level)
    \/ AsyncVolumeUp("a")
    \/ AsyncVolumeDown("a")

SpecVolume == InitVolume /\ [][NextVolume]_vars

\* The level the latest volume command sent, and the level reported before.
SentLevel == calls[1].level[1]
PrevLevel == volume[last.e][1]
StepSent(op) ==
    /\ last.op = op
    /\ calls # <<>>
    /\ calls[1].call = "set_current_volume_level"

OtherSerials == <<"b", "c", "x">>

SeqsNoRepeat(S, n) ==
    {s \in UNION {[1 .. k -> S] : k \in 0 .. n} :
        \A i, j \in DOMAIN s : i # j => s[i] # s[j]}

\* What get_beolink_listeners can return: up to MaxList listeners, any order.
ListenerLists ==
    {[i \in DOMAIN s |-> Jid(s[i])] :
        s \in SeqsNoRepeat({OtherSerials[i] : i \in DOMAIN OtherSerials},
                           MaxList)}

\* What get_beolink_peers can return: up to MaxPeers of the devices b, x.
PeerLists ==
    {[i \in DOMAIN s |-> Peer(s[i])] :
        s \in {SelectSeq(OtherSerials, LAMBDA x : x \in S) :
                 S \in {T \in SUBSET {"b", "x"} : Cardinality(T) <= MaxPeers}}}

BeolinkMetadata ==
    [title : {"Song", SourceLineIn},
     art : {"none"},
     remote_leader : {None, Some(Peer("b")), Some(Peer("x"))}]

BeolinkSources ==
    {[id |-> "uriStreamer", name |-> SourceUriStreamer],
     [id |-> "chromeCast", name |-> SourceChromeCast]}

FriendlyNames == {"Beosound A", "Kitchen"}

InitBeolink == Constructed({MaxLevel}, {1})

NextBeolink ==
    \/ \E fetched \in ListenerLists :
           Initialize("a", "Beosound A", None, EmptyMetadata, EmptySource,
                      <<>>, fetched)
    \/ \E data \in BeolinkMetadata, peers \in PeerLists,
          fetched \in ListenerLists :
           UpdatePlaybackMetadata("a", data, peers, fetched)
    \/ \E peers \in PeerLists, fetched \in ListenerLists :
           UpdateBeolink("a", peers, fetched)
    \/ \E name \in FriendlyNames, peers \in PeerLists,
          fetched \in ListenerLists :
           UpdateFriendlyName("a", name, peers, fetched)
    \/ \E data \in BeolinkSources : UpdateSourceChange("a", data)

SpecBeolink == InitBeolink /\ [][NextBeolink]_vars

\* The latest handler recomputed the group state of entity last.e.
RecomputedGroup ==
    last.op \in {"initialize", "update_playback_metadata", "update_beolink",
                 "update_friendly_name"}
SelfEntity(e) == get_entity_id_from_jid(beolink_jid(e))
LeaderEntity(leader) == get_entity_id_from_jid(leader[1].jid)
LineInOrStreamer(e) == source(e) \in {SourceLineIn, SourceUriStreamer}

C4_SoloIsEmpty ==
    LET e == last.e
    IN (/\ RecomputedGroup
        /\ playback_metadata[e].remote_leader = None
        /\ last.args.listeners = <<>>) =>
           /\ remote_leader[e] = None
           /\ attr_group_members[e] = <<>>
           /\ "leader" \notin DOMAIN beolink_attribute[e]
           /\ "listeners" \notin DOMAIN beolink_attribute[e]

\* A Beolink notification that finds the entity solo among known peers.
C4_Witness ==
    /\ last.op = "update_beolink"
    /\ playback_metadata[last.e].remote_leader = None
    /\ last.args.listeners = <<>>
    /\ "peers" \in DOMAIN beolink_attribute[last.e]
    /\ attr_group_members[last.e] = <<>>

\* The listeners' entity ids with the unresolvable ones left out.
ResolvedOnly(listeners) ==
    SelectSeq(ListenerEntityIds(listeners), LAMBDA m : m # None)

\* C5: for a leader, the group members are the entity itself followed by the
\* entity id of every listener the registry resolves; an unresolvable
\* listener is left out, so no entry of the list is null.
C5_UnresolvedOmitted ==
    LET e == last.e
    IN (/\ RecomputedGroup
        /\ remote_leader[e] = None
        /\ last.args.listeners # <<>>) =>
           /\ attr_group_members[e] =
                  <<SelfEntity(e)>> \o ResolvedOnly(last.args.listeners)
           /\ \A i \in DOMAIN attr_group_members[e] :
                  attr_group_members[e][i] # None

\* What the group members and the attribute say about the role.
HasLeaderEntry(e) == "leader" \in DOMAIN beolink_attribute[e]
HasListenersEntry(e) == "listeners" \in DOMAIN beolink_attribute[e]
MembersOfListener(e) ==
    /\ Len(attr_group_members[e]) = 2
    /\ attr_group_members[e][2] = SelfEntity(e)
MembersOfLeader(e) ==
    /\ Len(attr_group_members[e]) = 1 + Len(beolink_listeners[e])
    /\ attr_group_members[e][1] = SelfEntity(e)

\* C6 as stated: the stored remote leader is non-null only if the stored
\* listener list is empty, and attribute and group members never describe
\* both a leader and listeners.
C6_StoredRolesExclusive ==
    \A e \in Entities :
        /\ remote_leader[e] # None => beolink_listeners[e] = <<>>
        /\ ~(HasLeaderEntry(e) /\ HasListenersEntry(e))

\* C6 amended: in every reachable state the published role is exactly one
\* of solo, listener and leader: the attribute never has both a leader and
\* a listeners entry, it has a leader entry exactly when the stored remote
\* leader is non-null (group members: leader, self), a listeners entry only
\* when the stored remote leader is null and the stored listener list is
\* non-empty (group members: self, listeners), and otherwise no group
\* members.  The stored listener list itself may be non-empty while the
\* stored remote leader is non-null.
C6_PublishedRoleExclusive ==
    \A e \in Entities :
        /\ ~(HasLeaderEntry(e) /\ HasListenersEntry(e))
        /\ HasLeaderEntry(e) <=> remote_leader[e] # None
        /\ HasListenersEntry(e) <=>
               (attached[e] /\ remote_leader[e] = None
                   /\ beolink_listeners[e] # <<>>)
        /\ remote_leader[e] # None => MembersOfListener(e)
        /\ (remote_leader[e] = None /\ beolink_listeners[e] # <<>>)
               => MembersOfLeader(e)
        /\ (remote_leader[e] = None /\ beolink_listeners[e] = <<>>)
               => attr_group_members[e] = <<>>

\* A listener that still stores the listeners it had as a leader.
C6_Witness ==
    \E e \in Entities :
        /\ remote_leader[e] # None
        /\ beolink_listeners[e] # <<>>
        /\ HasLeaderEntry(e)

\* The group state as a function of the data of the latest notification.
ExpectedLeader(e) ==
    IF LineInOrStreamer(e) THEN None ELSE playback_metadata[e].remote_leader
ExpectedMembers(e, listeners) ==
    IF ExpectedLeader(e) # None
    THEN <<LeaderEntity(ExpectedLeader(e)), SelfEntity(e)>>
    ELSE IF listeners = <<>> THEN <<>>
    ELSE [i \in 1 .. Len(listeners) + 1 |->
             IF i = 1 THEN SelfEntity(e)
             ELSE get_entity_id_from_jid(listeners[i - 1])]
ExpectedPeers(peers) ==
    [n \in {peers[i].friendly_name : i \in DOMAIN peers} |->
        peers[CHOOSE i \in DOMAIN peers :
                 /\ peers[i].friendly_name = n
                 /\ \A j \in DOMAIN peers :
                        j > i => peers[j].friendly_name # n].jid]
ExpectedListeners(peers, listeners) ==
    LET known == {i \in DOMAIN peers :
                     \E k \in DOMAIN listeners : listeners[k] = peers[i].jid}
    IN [n \in {peers[i].friendly_name : i \in known} |->
           peers[CHOOSE i \in known : peers[i].friendly_name = n].jid]
ExpectedAttribute(e, peers, listeners) ==
    ("self" :> (friendly_name[e] :> beolink_jid(e)))
    @@ (IF peers # <<>> THEN "peers" :> ExpectedPeers(peers) ELSE EmptyDict)
    @@ (IF ExpectedLeader(e) # None
        THEN "leader" :> (ExpectedLeader(e)[1].friendly_name
                             :> ExpectedLeader(e)[1].jid)
        ELSE IF listeners # <<>>
        THEN "listeners" :> ExpectedListeners(peers, listeners)
        ELSE EmptyDict)

\* C7: after every notification that recomputes the group state, the stored
\* remote leader, the group members and the Beolink attribute are determined
\* by the latest metadata, the current source, the friendly name and the
\* peers and listeners the device reported for this notification alone.
C7_RecomputedFromScratch ==
    LET e == last.e
    IN RecomputedGroup =>
           /\ remote_leader[e] = ExpectedLeader(e)
           /\ attr_group_members[e] = ExpectedMembers(e, last.args.listeners)
           /\ beolink_attribute[e] =
                  ExpectedAttribute(e, last.args.peers, last.args.listeners)

\* A friendly-name notification recomputing a leader's state with its peers.
C7_Witness ==
    /\ last.op = "update_friendly_name"
    /\ friendly_name[last.e] = "Kitchen"
    /\ HasListenersEntry(last.e)
    /\ DOMAIN beolink_attribute[last.e]["listeners"] # {}
    /\ Len(attr_group_members[last.e]) = 3

(***************************************************************************)
(* Values passed as service parameters and dispatcher payloads: a string   *)
(* as the service schema delivers it, or a float a handler converted it    *)
(* to.  float(text) succeeds for the decimal texts of FloatText and raises *)
(* ValueError for any other text; float(None) raises TypeError.            *)
(***************************************************************************)
StrParam(text) == [tag |-> "str", text |-> text, h |-> 0, under |-> FALSE]
FloatParam(f) == [tag |-> "float", text |-> "", h |-> f.h, under |-> f.under]

FloatText == ("0.50" :> 50) @@ ("0.29" :> 29) @@ ("0.10" :> 10)
                 @@ ("-0.10" :> 0 - 10)

\* float(parameter): the float, or None when the conversion raises
ParseFloat(p) ==
    IF p.tag = "float" THEN Some([h |-> p.h, under |-> p.under])
    ELSE IF p.text \in DOMAIN FloatText
    THEN Some(FloatOfHundredths(FloatText[p.text]))
    ELSE None

\* (level, offset) pairs, offsets 0.10 and -0.10, for which the double
\* level / 100 + offset lies just below the decimal sum, so that
\* int((level / 100 + offset) * 100) is one less than level + offset.
FloatSumUnder ==
    {<<35, 10>>, <<47, 10>>, <<48, 10>>, <<69, 10>>}
    \cup {<<l, 0 - 10>> : l \in {11, 12, 15, 18, 21, 24, 29, 35, 41, 42, 43}}

\* A dispatcher message: the JID its topic starts with, the channel the
\* topic ends with, and the arguments.
Msg(jid, channel, command, parameter) ==
    [jid |-> jid, channel |-> channel, command |-> command,
     parameter |-> parameter]

\* async_set_volume_level: the commands it sends to the device
SetVolumeLevelCalls(e, f) ==
    <<LevelCall(e, "set_current_volume_level", IntTimes100(f))>>

\* new_volume of async_set_relative_volume_level
RelativeVolume(e, offset) ==
    LET l == volume[e][1]
        sum == [h |-> l + offset.h, under |-> <<l, offset.h>> \in FloatSumUnder]
    IN IF sum.h > MaxLevel \/ (sum.h = MaxLevel /\ ~sum.under)
       THEN FloatOfHundredths(MaxLevel)
       ELSE IF sum.h <= 0 THEN FloatOfHundredths(0)
       ELSE sum

\* async_set_relative_volume_level: the commands it sends to the device
SetRelativeVolumeLevelCalls(e, offset) ==
    IF volume_level(e) = None
    THEN <<>>
    ELSE SetVolumeLevelCalls(e, RelativeVolume(e, offset))

(***************************************************************************)
(* ACCEPTED_COMMANDS_LISTS: each list holds command names and ends with    *)
(* the type of their parameter; the commands kept are those whose handlers *)
(* the model has.                                                          *)
(***************************************************************************)
AcceptedCommandsLists ==
    <<[commands |-> {"set_volume_level", "set_relative_volume_level"},
       type |-> "float"],
      [commands |-> {"volume_up", "volume_down"}, type |-> "none"]>>

AcceptedCommands == UNION {AcceptedCommandsLists[i].commands :
                              i \in DOMAIN AcceptedCommandsLists}

\* getattr(self, f"async_{command}")(argument)
RunCommand(e, command, argument) ==
    CASE command = "set_volume_level" -> SetVolumeLevelCalls(e, argument[1])
      [] command = "set_relative_volume_level" ->
             SetRelativeVolumeLevelCalls(e, argument[1])
      [] command = "volume_up" -> VolumeUpCalls(e)
      [] command = "volume_down" -> VolumeDownCalls(e)

NoOutput == [calls |-> <<>>, sent |-> <<>>]

(***************************************************************************)
(* async_beolink_leader_command.                                           *)
(***************************************************************************)
\* parameter_type(parameter) succeeds
Convertible(type, parameter) ==
    /\ type = "float"
    /\ parameter # None
    /\ ParseFloat(parameter[1]) # None

\* parameter = parameter_type(parameter)
Converted(type, parameter) ==
    IF type = "float" THEN Some(FloatParam(ParseFloat(parameter[1])[1]))
    ELSE parameter

\* The forward-or-run part of one loop iteration whose list holds the
\* command, the parameter having passed the check.
LeaderCommandStepAlsoLocal(e, command, type, parameter) ==
    IF parameter # None
    THEN [calls |-> RunCommand(e, command, ParseFloat(parameter[1])),
          sent |-> IF remote_leader[e] # None
                   THEN <<Msg(remote_leader[e][1].jid, "leader_command",
                              command, parameter)>>
                   ELSE <<>>]
    ELSE [calls |-> RunCommand(e, command, None),
          sent |-> IF remote_leader[e] # None
                   THEN <<Msg(remote_leader[e][1].jid, "leader_command",
                              command, parameter)>>
                   ELSE <<>>]
LeaderCommandStep(e, command, type, parameter) ==
    IF remote_leader[e] # None
    THEN [calls |-> <<>>,
          sent |-> <<Msg(remote_leader[e][1].jid, "leader_command",
                         command, parameter)>>]
    ELSE IF parameter # None
    THEN [calls |-> RunCommand(e, command, ParseFloat(parameter[1])),
          sent |-> <<>>]
    ELSE IF type = "none"
    THEN [calls |-> RunCommand(e, command, None), sent |-> <<>>]
    ELSE NoOutput

\* for command_list in ACCEPTED_COMMANDS_LISTS, from list i on; a return
\* inside the loop ends the handler with what was done so far.
RECURSIVE LeaderCommandFrom(_, _, _, _, _)
LeaderCommandFrom(i, e, command, parameter, out) ==
    IF i > Len(AcceptedCommandsLists) THEN out
    ELSE LET cl == AcceptedCommandsLists[i]
         IN IF command \notin cl.commands
            THEN LeaderCommandFrom(i + 1, e, command, parameter, out)
            ELSE IF cl.type # "none" /\ ~Convertible(cl.type, parameter)
            THEN out
            ELSE IF cl.type = "none" /\ parameter # None
            THEN out
            ELSE LET converted == Converted(cl.type, parameter)
                     step == LeaderCommandStep(e, command, cl.type, converted)
                 IN LeaderCommandFrom(i + 1, e, command, converted,
                        [calls |-> out.calls \o step.calls,
                         sent |-> out.sent \o step.sent])

BeolinkLeaderCommand(e, command, parameter, queue, relayed) ==
    /\ attached[e]
    /\ LET out == LeaderCommandFrom(1, e, command, parameter, NoOutput)
       IN /\ Len(queue) + Len(out.sent) <= MaxBus
          /\ calls' = out.calls
          /\ sent' = out.sent
          /\ writes' = 0
          /\ bus' = queue \o out.sent
    /\ last' = Last("beolink_leader_command", e,
                    [command |-> command, parameter |-> parameter,
                     relayed |-> relayed])
    /\ UNCHANGED <<attached, config, volume, snapshot, beolink_state, tasks,
                   clock, catalogs, selects, playback>>

(***************************************************************************)
(* async_beolink_listener_command: no check of the parameter; a failing    *)
(* conversion raises out of the handler.                                   *)
(***************************************************************************)
RECURSIVE ListenerCommandFrom(_, _, _, _, _)
ListenerCommandFrom(i, e, command, parameter, done) ==
    IF i > Len(AcceptedCommandsLists) THEN done
    ELSE LET cl == AcceptedCommandsLists[i]
         IN IF command \notin cl.commands
            THEN ListenerCommandFrom(i + 1, e, command, parameter, done)
            ELSE IF parameter # None
            THEN IF Convertible(cl.type, parameter)
                 THEN ListenerCommandFrom(i + 1, e, command, parameter,
                          done \o RunCommand(e, command,
                                             ParseFloat(parameter[1])))
                 ELSE done
            ELSE IF cl.type = "none"
            THEN ListenerCommandFrom(i + 1, e, command, parameter,
                                     done \o RunCommand(e, command, None))
            ELSE ListenerCommandFrom(i + 1, e, command, parameter, done)

BeolinkListenerCommand(e, command, parameter, queue, relayed) ==
    /\ attached[e]
    /\ calls' = ListenerCommandFrom(1, e, command, parameter, <<>>)
    /\ sent' = <<>>
    /\ writes' = 0
    /\ bus' = queue
    /\ last' = Last("beolink_listener_command", e,
                    [command |-> command, parameter |-> parameter,
                     relayed |-> relayed])
    /\ UNCHANGED <<attached, config, volume, snapshot, beolink_state, tasks,
                   clock, catalogs, selects, playback>>

(***************************************************************************)
(* async_beolink_set_volume and async_beolink_set_relative_volume.         *)
(***************************************************************************)
\* for beolink_listener in self._beolink_listeners: async_dispatcher_send
FanOut(e, command, text) ==
    [i \in 1 .. Len(beolink_listeners[e]) |->
        Msg(beolink_listeners[e][i], "listener_command", command,
            Some(StrParam(text)))]

\* What either handler does: forward to the leader, or apply the command
\* to itself and fan it out; float(volume_level) raising ends the handler
\* before anything is sent.
BeolinkVolumeOutput(e, channel, command, text) ==
    IF remote_leader[e] # None
    THEN [calls |-> <<>>,
          sent |-> <<Msg(remote_leader[e][1].jid, channel, "",
                         Some(StrParam(text)))>>]
    ELSE IF ParseFloat(StrParam(text)) = None
    THEN NoOutput
    ELSE [calls |-> RunCommand(e, command, ParseFloat(StrParam(text))),
          sent |-> FanOut(e, command, text)]

BeolinkSetVolume(e, text, queue, relayed) ==
    /\ attached[e]
    /\ LET out == BeolinkVolumeOutput(e, "volume", "set_volume_level", text)
       IN /\ Len(queue) + Len(out.sent) <= MaxBus
          /\ calls' = out.calls
          /\ sent' = out.sent
          /\ writes' = 0
          /\ bus' = queue \o out.sent
    /\ last' = Last("beolink_set_volume", e,
                    [text |-> text, relayed |-> relayed])
    /\ UNCHANGED <<attached, config, volume, snapshot, beolink_state, tasks,
                   clock, catalogs, selects, playback>>

BeolinkSetRelativeVolume(e, text, queue, relayed) ==
    /\ attached[e]
    /\ LET out == BeolinkVolumeOutput(e, "relative_volume",
                                      "set_relative_volume_level", text)
       IN /\ Len(queue) + Len(out.sent) <= MaxBus
          /\ calls' = out.calls
          /\ sent' = out.sent
          /\ writes' = 0
          /\ bus' = queue \o out.sent
    /\ last' = Last("beolink_set_relative_volume", e,
                    [text |-> text, relayed |-> relayed])
    /\ UNCHANGED <<attached, config, volume, snapshot, beolink_state, tasks,
                   clock, catalogs, selects, playback>>

(***************************************************************************)
(* The dispatcher: handlers are scheduled on the event loop in the order   *)
(* the messages were sent; a message on a topic nobody is connected to is  *)
(* dropped.                                                                *)
(***************************************************************************)
Subscribed(e, m) == attached[e] /\ beolink_jid(e) = m.jid

DeliverLeaderCommand(e) ==
    /\ bus # <<>>
    /\ Subscribed(e, Head(bus))
    /\ Head(bus).channel = "leader_command"
    /\ BeolinkLeaderCommand(e, Head(bus).command, Head(bus).parameter,
                            Tail(bus), TRUE)

DeliverListenerCommand(e) ==
    /\ bus # <<>>
    /\ Subscribed(e, Head(bus))
    /\ Head(bus).channel = "listener_command"
    /\ BeolinkListenerCommand(e, Head(bus).command, Head(bus).parameter,
                              Tail(bus), TRUE)

DeliverVolume(e) ==
    /\ bus # <<>>
    /\ Subscribed(e, Head(bus))
    /\ Head(bus).channel = "volume"
    /\ BeolinkSetVolume(e, Head(bus).parameter[1].text, Tail(bus), TRUE)

DeliverRelativeVolume(e) ==
    /\ bus # <<>>
    /\ Subscribed(e, Head(bus))
    /\ Head(bus).channel = "relative_volume"
    /\ BeolinkSetRelativeVolume(e, Head(bus).parameter[1].text, Tail(bus),
                                TRUE)

DropUndelivered ==
    /\ bus # <<>>
    /\ \A e \in Entities : ~Subscribed(e, Head(bus))
    /\ bus' = Tail(bus)
    /\ calls' = <<>>
    /\ sent' = <<>>
    /\ writes' = 0
    /\ last' = Last("undelivered", Head(bus).jid[3], NoArgs)
    /\ UNCHANGED <<attached, config, volume, snapshot, beolink_state, tasks,
                   clock, catalogs, selects, playback>>

(***************************************************************************)
(* SpecRelay: the entities a and b, each made solo, listener of the other  *)
(* or leader by its metadata notifications, the Beolink volume and leader- *)
(* command services invoked on either, and the dispatcher delivering what  *)
(* they send.  Device c is registered but not attached, x is foreign.  A   *)
(* service is invoked once the dispatcher has delivered what the previous  *)
(* one caused; notifications arrive at any time.                           *)
(***************************************************************************)
RelayEntities == {"a", "b"}
RelayLevels == {Some(0), Some(50)}
RelayOther(e) == IF e = "a" THEN "b" ELSE "a"

RelayMetadata(e) ==
    [title : {"Song"}, art : {"none"},
     remote_leader : {None, Some(Peer(RelayOther(e)))}]
\* What get_beolink_listeners reports: the other entity, then x, then c.
RelayListeners(e) ==
    {SubSeq(<<Jid(RelayOther(e)), Jid("x"), Jid("c")>>, 1, k) :
        k \in 0 .. Min(MaxList, 3)}

VolumeTexts == {"0.50", "abc"}
RelativeTexts == {"0.10", "abc"}
LeaderCommands == {"set_volume_level", "volume_up", "bogus"}
LeaderParameters == {None, Some(StrParam("0.50")), Some(StrParam("abc"))}

InitRelay == Constructed({MaxLevel}, {1})

NextRelay ==
    \/ \E e \in RelayEntities, level \in RelayLevels :
           Initialize(e, PeerName(e), level, EmptyMetadata, EmptySource,
                      <<>>, <<>>)
    \/ \E e \in RelayEntities :
           \E data \in RelayMetadata(e), fetched \in RelayListeners(e) :
               UpdatePlaybackMetadata(e, data, <<>>, fetched)
    \/ \E e \in RelayEntities, level \in RelayLevels : UpdateVolume(e, level)
    \/ \E e \in RelayEntities, text \in VolumeTexts :
           bus = <<>> /\ BeolinkSetVolume(e, text, bus, FALSE)
    \/ \E e \in RelayEntities, text \in RelativeTexts :
           bus = <<>> /\ BeolinkSetRelativeVolume(e, text, bus, FALSE)
    \/ \E e \in RelayEntities, command \in LeaderCommands,
          parameter \in LeaderParameters :
           bus = <<>> /\ BeolinkLeaderCommand(e, command, parameter, bus, FALSE)
    \/ \E e \in RelayEntities : DeliverLeaderCommand(e)
    \/ \E e \in RelayEntities : DeliverListenerCommand(e)
    \/ \E e \in RelayEntities : DeliverVolume(e)
    \/ \E e \in RelayEntities : DeliverRelativeVolume(e)
    \/ DropUndelivered

SpecRelay == InitRelay /\ [][NextRelay]_vars

\* The parameter of the latest leader command is valid for the command.
ValidParameter(command, parameter) ==
    \E i \in DOMAIN AcceptedCommandsLists :
        /\ command \in AcceptedCommandsLists[i].commands
        /\ IF AcceptedCommandsLists[i].type = "none"
           THEN parameter = None
           ELSE /\ parameter # None
                /\ parameter[1].tag = "float"
                       \/ parameter[1].text \in DOMAIN FloatText

\* The parameter as the handler passes it on: converted to the parameter
\* type of the command.
PassedOn(command, parameter) ==
    IF parameter = None THEN None
    ELSE IF parameter[1].tag = "float" THEN parameter
    ELSE Some(FloatParam(FloatOfHundredths(FloatText[parameter[1].text])))

\* C8: a leader command with an accepted name and a valid parameter handled
\* by a listener is dispatched exactly once, on the leader-command topic of
\* the stored remote leader, with the command and its parameter (converted
\* to the command's parameter type), and the listener sends no command to
\* its own device.
C8_ListenerForwardsOnce ==
    LET e == last.e
    IN (/\ last.op = "beolink_leader_command"
        /\ remote_leader[e] # None
        /\ last.args.command \in AcceptedCommands
        /\ ValidParameter(last.args.command, last.args.parameter)) =>
           /\ calls = <<>>
           /\ sent = <<Msg(remote_leader[e][1].jid, "leader_command",
                           last.args.command,
                           PassedOn(last.args.command, last.args.parameter))>>

\* A listener with a reported level forwards set_volume_level 0.50.
C8_Witness ==
    /\ last.op = "beolink_leader_command"
    /\ remote_leader[last.e] # None
    /\ volume[last.e] = Some(50)
    /\ last.args.command = "set_volume_level"
    /\ last.args.parameter = Some(StrParam("0.50"))
    /\ Len(sent) = 1
    /\ sent[1].jid = Jid(RelayOther(last.e))

\* The latest handler was a Beolink volume command with a value float()
\* accepts, on an entity that is not a listener.
VolumeCommandOnNonListener ==
    /\ last.op \in {"beolink_set_volume", "beolink_set_relative_volume"}
    /\ remote_leader[last.e] = None
    /\ last.args.text \in DOMAIN FloatText

VolumeCommandName ==
    IF last.op = "beolink_set_volume" THEN "set_volume_level"
    ELSE "set_relative_volume_level"

\* C9: a Beolink volume command handled by an entity that is not a listener
\* sets the entity's own volume (one set-level command to its device) and
\* sends the same command with the same value once to every listener of its
\* stored listener list, in a listener-command dispatch, and nothing else.
C9_AppliesAndFansOut ==
    LET e == last.e
    IN VolumeCommandOnNonListener =>
           /\ Len(calls) = 1
           /\ calls[1].call = "set_current_volume_level"
           /\ Len(sent) = Len(beolink_listeners[e])
           /\ \A i \in DOMAIN sent :
                  sent[i] = Msg(beolink_listeners[e][i], "listener_command",
                                VolumeCommandName,
                                Some(StrParam(last.args.text)))

(***************************************************************************)
(* Group join: async_join_players, _get_beolink_jid, async_beolink_join,   *)
(* async_beolink_expand and the _beolink_expand task.                      *)
(***************************************************************************)
\* Longest list of join targets or JIDs a service call carries.
MaxTargets == 2
\* Most expand tasks created in a behaviour.
MaxTasks == 2
\* Last tick of the clock.
MaxTime == 4
\* Ticks in the second that asyncio.sleep(1) sleeps.
TicksPerSecond == 2

\* Entity ids a join can name besides the B&O players: a player of another
\* integration, and an id the entity registry does not know.
ForeignPlayer == "media_player.other"
UnknownPlayer == "media_player.unknown"

\* entity_registry.async_get(entity_id): the entry, or None
RegistryEntry(id) ==
    IF \E e \in Entities : id = entity_id(e)
    THEN Some([config_entry_id |->
                  CHOOSE e \in Entities : id = entity_id(e)])
    ELSE IF id = ForeignPlayer THEN Some([config_entry_id |-> "other"])
    ELSE None

\* config_entry.data of the config entry with the given id
ConfigEntryData(entry_id) ==
    IF entry_id \in Entities
    THEN "beolink_jid" :> beolink_jid(entry_id)
    ELSE EmptyDict

\* _get_beolink_jid: reading config_entry_id of a missing registry entry
\* raises AttributeError; a config entry without a JID gives None.
get_beolink_jid(id) ==
    IF RegistryEntry(id) = None
    THEN [raised |-> TRUE, jid |-> None]
    ELSE LET data == ConfigEntryData(RegistryEntry(id)[1].config_entry_id)
         IN IF "beolink_jid" \in DOMAIN data
            THEN [raised |-> FALSE, jid |-> Some(data["beolink_jid"])]
            ELSE [raised |-> FALSE, jid |-> None]

\* check_valid_jid: the three dot-separated parts have 4, 7 and 8 digits;
\* the model's JIDs stand for valid ones, InvalidJid for one that is not.
InvalidJid == <<"1111", "22", "b">>
check_valid_jid(jid) == jid \in Jids

\* the loop of async_join_players over the group members
RECURSIVE JoinJids(_)
JoinJids(members) ==
    IF members = <<>> THEN [raised |-> FALSE, jids |-> <<>>]
    ELSE LET first == get_beolink_jid(Head(members))
             rest == JoinJids(Tail(members))
         IN IF first.raised THEN [raised |-> TRUE, jids |-> <<>>]
            ELSE IF rest.raised THEN rest
            ELSE IF first.jid = None THEN rest
            ELSE [raised |-> FALSE, jids |-> <<first.jid[1]>> \o rest.jids]

\* A _beolink_expand task: the JIDs it was created with, the index of the
\* next one it posts and the time from which it may post it; members are
\* the join targets it came from.
ExpandTask(e, members, jids) ==
    [e |-> e, kind |-> "expand", members |-> members, jids |-> jids,
     next |-> 1, wake |-> now]

\* A _beolink_unexpand task.
UnexpandTask(e, jids) ==
    [e |-> e, kind |-> "unexpand", members |-> <<>>, jids |-> jids,
     next |-> 1, wake |-> now]

\* async_beolink_expand: the tasks after it ran
TasksAfterExpandUnchecked(e, members, jids) ==
    Append(tasks, ExpandTask(e, members, jids))
TasksAfterExpand(e, members, jids) ==
    IF \A i \in DOMAIN jids : check_valid_jid(jids[i])
    THEN Append(tasks, ExpandTask(e, members, jids))
    ELSE tasks

\* async_beolink_join without a JID
BeolinkJoinCalls(e) ==
    <<VendorCall(e, "join_latest_beolink_experience", None, None)>>

\* async_join_players
AsyncJoinPlayers(e, members) ==
    /\ attached[e]
    /\ Len(tasks) < MaxTasks
    /\ IF Len(members) = 0
       THEN /\ calls' = BeolinkJoinCalls(e)
            /\ tasks' = tasks
       ELSE /\ calls' = <<>>
            /\ tasks' = IF JoinJids(members).raised
                        THEN tasks
                        ELSE TasksAfterExpand(e, members,
                                              JoinJids(members).jids)
    /\ sent' = <<>>
    /\ writes' = 0
    /\ last' = Last("join_players", e,
                    [members |-> members,
                     task |-> IF Len(tasks') > Len(tasks)
                              THEN Len(tasks') ELSE 0])
    /\ UNCHANGED <<attached, config, volume, snapshot, beolink_state, bus,
                   clock, catalogs, selects, playback>>

\* async_beolink_join as a service, with a JID or with None
BeolinkJoinPeerCalls(e, jid) ==
    IF jid = None THEN BeolinkJoinCalls(e)
    ELSE IF ~check_valid_jid(jid[1]) THEN <<>>
    ELSE <<JidCall(e, "join_beolink_peer", jid[1])>>

AsyncBeolinkJoin(e, jid) ==
    /\ attached[e]
    /\ calls' = BeolinkJoinPeerCalls(e, jid)
    /\ sent' = <<>>
    /\ writes' = 0
    /\ last' = Last("beolink_join", e, [jid |-> jid])
    /\ UNCHANGED <<attached, config, volume, snapshot, beolink_state,
                   pending, clock, catalogs, selects, playback>>

\* async_beolink_expand as a service
AsyncBeolinkExpand(e, jids) ==
    /\ attached[e]
    /\ Len(tasks) < MaxTasks
    /\ tasks' = TasksAfterExpand(e, <<>>, jids)
    /\ calls' = <<>>
    /\ sent' = <<>>
    /\ writes' = 0
    /\ last' = Last("beolink_expand", e,
                    [jids |-> jids,
                     task |-> IF Len(tasks') > Len(tasks)
                              THEN Len(tasks') ELSE 0])
    /\ UNCHANGED <<attached, config, volume, snapshot, beolink_state, bus,
                   clock, catalogs, selects, playback>>

\* async_beolink_unexpand as a service
AsyncBeolinkUnexpand(e, jids) ==
    /\ attached[e]
    /\ Len(tasks) < MaxTasks
    /\ tasks' = IF \A i \in DOMAIN jids : check_valid_jid(jids[i])
                THEN Append(tasks, UnexpandTask(e, jids))
                ELSE tasks
    /\ calls' = <<>>
    /\ sent' = <<>>
    /\ writes' = 0
    /\ last' = Last("beolink_unexpand", e,
                    [jids |-> jids,
                     task |-> IF Len(tasks') > Len(tasks)
                              THEN Len(tasks') ELSE 0])
    /\ UNCHANGED <<attached, config, volume, snapshot, beolink_state, bus,
                   clock, catalogs, selects, playback>>

\* One round of the loop of a task: the post, then asyncio.sleep(1).
TaskRound(t, request, op) ==
    /\ t \in DOMAIN tasks
    /\ tasks[t].next <= Len(tasks[t].jids)
    /\ tasks[t].wake <= now
    /\ calls' = <<JidCall(tasks[t].e, request, tasks[t].jids[tasks[t].next])>>
    /\ tasks' = [tasks EXCEPT ![t].next = @ + 1,
                              ![t].wake = now + TicksPerSecond]
    /\ request_time' = [request_time EXCEPT ![tasks[t].e] = Some(now)]
    /\ sent' = <<>>
    /\ writes' = 0
    /\ last' = Last(op, tasks[t].e,
                    [task |-> t, previous |-> request_time[tasks[t].e]])
    /\ UNCHANGED <<attached, config, volume, snapshot, beolink_state, bus,
                   now, catalogs, selects, playback>>

\* _beolink_expand
BeolinkExpandStep(t) ==
    /\ t \in DOMAIN tasks
    /\ tasks[t].kind = "expand"
    /\ TaskRound(t, "post_beolink_expand", "beolink_expand_step")

\* _beolink_unexpand
BeolinkUnexpandStep(t) ==
    /\ t \in DOMAIN tasks
    /\ tasks[t].kind = "unexpand"
    /\ TaskRound(t, "post_beolink_unexpand", "beolink_unexpand_step")

\* Time passes.
Tick ==
    /\ now < MaxTime
    /\ now' = now + 1
    /\ UNCHANGED <<attached, config, volume, snapshot, beolink_state,
                   pending, request_time, catalogs, selects, playback,
                   writes, calls, sent, last>>

(***************************************************************************)
(* SpecJoin: entity a joined with every list of up to MaxTargets targets   *)
(* among the players b and c, a foreign player and an unknown entity id.   *)
(***************************************************************************)
JoinTargets == {entity_id("b"), entity_id("c"), ForeignPlayer, UnknownPlayer}
JoinLists == SeqsNoRepeat(JoinTargets, MaxTargets)
ExpandLists == SeqsNoRepeat({Jid("b"), Jid("x"), InvalidJid}, MaxTargets)

InitJoin == Constructed({MaxLevel}, {1})

NextJoin ==
    \/ Initialize("a", "Beosound A", None, EmptyMetadata, EmptySource,
                  <<>>, <<>>)
    \/ \E members \in JoinLists : AsyncJoinPlayers("a", members)
    \/ \E jids \in ExpandLists : AsyncBeolinkExpand("a", jids)
    \/ \E jids \in ExpandLists : AsyncBeolinkUnexpand("a", jids)
    \/ \E t \in 1 .. MaxTasks : BeolinkExpandStep(t)
    \/ \E t \in 1 .. MaxTasks : BeolinkUnexpandStep(t)
    \/ Tick

SpecJoin == InitJoin /\ [][NextJoin]_vars

\* The JIDs of the targets that resolve to a Beolink identifier, in order.
ResolvesToJid(id) == \E e \in Entities : id = entity_id(e)
RECURSIVE ResolvableJids(_)
ResolvableJids(members) ==
    IF members = <<>> THEN <<>>
    ELSE (IF ResolvesToJid(Head(members))
          THEN <<beolink_jid(CHOOSE e \in Entities :
                                 Head(members) = entity_id(e))>>
          ELSE <<>>) \o ResolvableJids(Tail(members))

\* C10: a join with no target sends exactly one join-latest-experience
\* request and creates no expand task; a join with targets creates the task
\* that posts one expand request for every target that resolves to a
\* Beolink identifier, in the order given, the other targets being skipped.
C10_UnresolvableSkipped ==
    last.op = "join_players" =>
        IF last.args.members = <<>>
        THEN /\ calls = BeolinkJoinCalls(last.e)
             /\ last.args.task = 0
        ELSE /\ calls = <<>>
             /\ last.args.task # 0
             /\ tasks[last.args.task].jids = ResolvableJids(last.args.members)

\* The latest handler sent the device an expand or unexpand request.
ExpandRequestSent ==
    last.op \in {"beolink_expand_step", "beolink_unexpand_step"}

\* C11: any two consecutive expand/unexpand requests an entity sends to its
\* device are at least one second apart, also when they come from service
\* calls invoked less than a second from each other.
C11_RequestsOneSecondApart ==
    (ExpandRequestSent /\ last.args.previous # None) =>
        request_time[last.e][1] - last.args.previous[1] >= TicksPerSecond

(***************************************************************************)
(* async_select_source.                                                    *)
(***************************************************************************)
\* key = [x for x in self._sources if self._sources[x] == source][0]
SourceKey(od, label) ==
    od[CHOOSE i \in DOMAIN od :
          /\ od[i][2] = label
          /\ \A j \in DOMAIN od : od[j][2] = label => i <= j][1]

SelectSourceCallsUnchecked(e, label) ==
    IF InSeq(label, Values(audio_sources[e]))
    THEN <<IdCall(e, "set_active_source", SourceKey(sources[e], label))>>
    ELSE <<IdCall(e, "post_remote_trigger", "None")>>
SelectSourceCallsAlwaysAudio(e, label) ==
    IF ~InSeq(label, Values(sources[e])) THEN <<>>
    ELSE <<IdCall(e, "set_active_source", SourceKey(sources[e], label))>>
SelectSourceCalls(e, label) ==
    IF ~InSeq(label, Values(sources[e])) THEN <<>>
    ELSE IF InSeq(label, Values(audio_sources[e]))
    THEN <<IdCall(e, "set_active_source", SourceKey(sources[e], label))>>
    ELSE <<IdCall(e, "post_remote_trigger", SourceKey(sources[e], label))>>

AsyncSelectSource(e, label) ==
    /\ attached[e]
    /\ calls' = SelectSourceCalls(e, label)
    /\ writes' = 0
    /\ sent' = <<>>
    /\ last' = Last("select_source", e, [source |-> label])
    /\ UNCHANGED <<attached, config, volume, snapshot, beolink_state,
                   pending, clock, catalogs, selects, playback>>

(***************************************************************************)
(* The source catalogs: attach, remote-menu notifications and source       *)
(* selections on entity a.                                                 *)
(***************************************************************************)
MaxSources == 2
MaxMenu == 2

SourceItems ==
    {Source("spotify", "Spotify", TRUE),
     Source("spotify", "Spotify Connect", TRUE),
     Source("tidal", "Shared", TRUE),
     Source("deezer", SourceDeezer, FALSE),
     Source("classicsAdapter", "Classics", TRUE)}
MenuItems ==
    {MenuItem("m1", "HDMI A", TRUE, TRUE),
     MenuItem("m1", "HDMI B", TRUE, TRUE),
     MenuItem("m2", "Shared", TRUE, TRUE),
     MenuItem("m3", "Radio", TRUE, FALSE)}

SourceArrays ==
    {SourcesResponse(items) :
        items \in {q \in UNION {[1 .. n -> SourceItems] : n \in 0 .. MaxSources} :
                      \A i, j \in DOMAIN q : q[i] = q[j] => i = j}}
        \cup {OutdatedApi}
\* The remote menu is a dict: its keys are distinct.
RemoteMenus ==
    {q \in UNION {[1 .. n -> MenuItems] : n \in 0 .. MaxMenu} :
        \A i, j \in DOMAIN q : q[i].key = q[j].key => i = j}
SourceLabels ==
    {"Spotify", "Spotify Connect", "Shared", SourceDeezer, "Classics",
     "HDMI A", "HDMI B", "Radio", SourceLineIn}

\* What the device reports while the entity attaches: no source yet, or
\* one; the remote menu is still empty.
AttachArrays ==
    {SourcesResponse(<<>>),
     SourcesResponse(<<Source("spotify", "Spotify", TRUE)>>)}

InitSources == Constructed({MaxLevel}, {1})

NextSources ==
    \/ \E response \in AttachArrays :
           InitializeWith("a", "Beosound A", Some(50), EmptyMetadata,
                          EmptySource, None, None, response, <<>>,
                          <<>>, <<>>)
    \/ \E response \in SourceArrays, menu \in RemoteMenus :
           UpdateSources("a", response, menu)
    \/ \E label \in SourceLabels : AsyncSelectSource("a", label)

SpecSources == InitSources /\ [][NextSources]_vars

\* Everything the entity stores, as opposed to what the latest handler did.
stored ==
    <<attached, config, volume, snapshot, beolink_state, pending, clock,
      catalogs, selects, playback>>

\* C12: selecting a label that is not in the current source catalog issues
\* no vendor call and leaves everything the entity stores unchanged.
C12_UnknownLabelIgnored ==
    [][(/\ last'.op = "select_source"
        /\ ~InSeq(last'.args.source, Values(sources[last'.e])))
          => (calls' = <<>> /\ writes' = 0 /\ UNCHANGED stored)]_vars

C12_Witness ==
    /\ last.op = "select_source"
    /\ sources[last.e] # <<>>
    /\ ~InSeq(last.args.source, Values(sources[last.e]))
    /\ calls = <<>>

\* C13: selecting a label of the current catalog issues exactly one vendor
\* call: set_active_source when the label is in the audio catalog, otherwise
\* post_remote_trigger, with a key that catalog maps to the label.
SelectedFrom(catalog, name) ==
    /\ Len(calls) = 1
    /\ calls[1].call = name
    /\ calls[1].id # None
    /\ HasKey(catalog, calls[1].id[1])
    /\ Get(catalog, calls[1].id[1]) = last.args.source

C13_SelectsByCatalog ==
    (/\ last.op = "select_source"
     /\ InSeq(last.args.source, Values(sources[last.e])))
        => IF InSeq(last.args.source, Values(audio_sources[last.e]))
           THEN SelectedFrom(audio_sources[last.e], "set_active_source")
           ELSE SelectedFrom(video_sources[last.e], "post_remote_trigger")

C13_Witness ==
    /\ last.op = "select_source"
    /\ InSeq(last.args.source, Values(audio_sources[last.e]))
    /\ InSeq(last.args.source, Values(video_sources[last.e]))
    /\ SelectedFrom(audio_sources[last.e], "set_active_source")

C13_WitnessVideo ==
    /\ last.op = "select_source"
    /\ ~InSeq(last.args.source, Values(audio_sources[last.e]))
    /\ SelectedFrom(video_sources[last.e], "post_remote_trigger")

(***************************************************************************)
(* async_set_relative_volume_level invoked on entity a at every reported   *)
(* level.                                                                  *)
(***************************************************************************)
AsyncSetRelativeVolumeLevel(e, offset) ==
    /\ attached[e]
    /\ calls' = SetRelativeVolumeLevelCalls(e, offset)
    /\ writes' = 0
    /\ sent' = <<>>
    /\ last' = Last("set_relative_volume_level", e, [offset |-> offset])
    /\ UNCHANGED stored

\* The offsets 0.10, -0.10, 1.00 and -1.00
RelativeOffsets ==
    {FloatOfHundredths(h) : h \in {10, 0 - 10, MaxLevel, 0 - MaxLevel}}

InitRelative == Constructed({MaxLevel}, {1})

NextRelative ==
    \/ \E l \in Levels :
           Initialize("a", "Beosound A", Some(l), EmptyMetadata, EmptySource,
                      <<>>, <<>>)
    \/ \E l \in Levels : UpdateVolume("a", Some(l))
    \/ \E offset \in RelativeOffsets : AsyncSetRelativeVolumeLevel("a", offset)

SpecRelative == InitRelative /\ [][NextRelative]_vars

\* C14: at every reported level 0..100 and for every offset the relative
\* volume command sends one set-volume command with the level
\* current + offset clamped into 0..100 (hundredths of the range [0, 1]).
C14_SendsClampedSum ==
    (last.op = "set_relative_volume_level" /\ volume[last.e] # None) =>
        calls = <<LevelCall(last.e, "set_current_volume_level",
                            Max(0, Min(MaxLevel, volume[last.e][1]
                                                   + last.args.offset.h)))>>

\* The same away from level 0, where nothing is sent.
C14_SendsClampedSumAboveZero ==
    (/\ last.op = "set_relative_volume_level"
     /\ volume[last.e] # None
     /\ volume[last.e][1] # 0) => C14_SendsClampedSum

(***************************************************************************)
(* select.py: the sound-mode and the listening-position select entities of *)
(* one device.                                                             *)
(***************************************************************************)
SelectDevice == "a"

\* mozart_api Scene with its key in the dict of get_all_scenes: the label
\* (None when the scene has none), whether its tags hold
\* "listeningposition", and the speaker group of its first action.
Scene(key, label, tagged, group) ==
    [key |-> key, label |-> label, tagged |-> tagged, group |-> group]
\* mozart_api ListeningMode
ListeningMode(id, name) == [id |-> id, name |-> name]
\* f"{sound_mode.name} - {sound_mode.id}": the name and the id can both be
\* read back from the label, so the label is the pair.
SoundModeLabel(mode) == <<mode.name, mode.id>>

\* One round of the loop over the scenes; acc holds the catalog built so
\* far and the current option.
PositionStepLastWins(acc, scene, active) ==
    IF scene.tagged /\ scene.label # None
    THEN [positions |-> Put(acc.positions, scene.label[1], scene.key),
          current |-> IF active = scene.group THEN scene.label
                      ELSE acc.current]
    ELSE acc
PositionStep(acc, scene, active) ==
    IF scene.tagged /\ scene.label # None
    THEN IF HasKey(acc.positions, scene.label[1])
         THEN acc
         ELSE [positions |-> Put(acc.positions, scene.label[1], scene.key),
               current |-> IF active = scene.group THEN scene.label
                           ELSE acc.current]
    ELSE acc

RECURSIVE PositionsOnto(_, _, _)
PositionsOnto(acc, scenes, active) ==
    IF scenes = <<>> THEN acc
    ELSE PositionsOnto(PositionStep(acc, Head(scenes), active),
                       Tail(scenes), active)

\* _update_listening_positions, at attach and on the ACTIVE_SPEAKER_GROUP
\* and REMOTE_MENU_CHANGED notifications: scenes is what get_all_scenes
\* answers, active the id of the active speaker group.
UpdateListeningPositions(scenes, active) ==
    LET r == PositionsOnto([positions |-> <<>>,
                            current |-> selects.position_current],
                           scenes, active)
    IN /\ selects' = [selects EXCEPT !.listening_positions = r.positions,
                                     !.position_options = Keys(r.positions),
                                     !.position_current = r.current]
       /\ writes' = 1
       /\ calls' = <<>>
       /\ sent' = <<>>
       /\ last' = Last("update_listening_positions", SelectDevice,
                       [scenes |-> scenes, active |-> active])
       /\ UNCHANGED <<attached, config, volume, snapshot, beolink_state,
                      pending, clock, catalogs, playback>>

\* async_select_option of the listening-position select; the platform
\* passes on only options of the option list.
SelectListeningPosition(option) ==
    /\ InSeq(option, selects.position_options)
    /\ calls' = <<IdCall(SelectDevice, "post_scene_trigger",
                         Get(selects.listening_positions, option))>>
    /\ writes' = 0
    /\ sent' = <<>>
    /\ last' = Last("select_listening_position", SelectDevice,
                    [option |-> option])
    /\ UNCHANGED stored

RECURSIVE SoundModesOnto(_, _, _)
SoundModesOnto(acc, modes, active) ==
    IF modes = <<>> THEN acc
    ELSE LET mode == Head(modes)
             label == SoundModeLabel(mode)
         IN SoundModesOnto(
                [modes |-> Put(acc.modes, label, mode.id),
                 current |-> IF mode.id = active THEN Some(label)
                             ELSE acc.current],
                Tail(modes), active)

\* _update_sound_modes, at attach and on the ACTIVE_LISTENING_MODE
\* notification: modes is what get_listening_mode_set answers, active the
\* id of the active mode.
UpdateSoundModes(modes, active) ==
    LET r == SoundModesOnto([modes |-> selects.sound_modes,
                             current |-> selects.sound_current],
                            modes, active)
    IN /\ selects' = [selects EXCEPT !.sound_modes = r.modes,
                                     !.sound_options = Keys(r.modes),
                                     !.sound_current = r.current]
       /\ writes' = 1
       /\ calls' = <<>>
       /\ sent' = <<>>
       /\ last' = Last("update_sound_modes", SelectDevice,
                       [modes |-> modes, active |-> active])
       /\ UNCHANGED <<attached, config, volume, snapshot, beolink_state,
                      pending, clock, catalogs, playback>>

\* async_select_option of the sound-mode select
SelectSoundModeSettingCurrent(option) ==
    /\ InSeq(option, selects.sound_options)
    /\ calls' = <<IdCall(SelectDevice, "activate_listening_mode",
                         Get(selects.sound_modes, option))>>
    /\ writes' = 1
    /\ sent' = <<>>
    /\ last' = Last("select_sound_mode", SelectDevice, [option |-> option])
    /\ selects' = [selects EXCEPT !.sound_current = Some(option)]
    /\ UNCHANGED <<attached, config, volume, snapshot, beolink_state,
                   pending, clock, catalogs, playback>>
SelectSoundMode(option) ==
    /\ InSeq(option, selects.sound_options)
    /\ calls' = <<IdCall(SelectDevice, "activate_listening_mode",
                         Get(selects.sound_modes, option))>>
    /\ writes' = 0
    /\ sent' = <<>>
    /\ last' = Last("select_sound_mode", SelectDevice, [option |-> option])
    /\ UNCHANGED stored

MaxScenes == 2
MaxModes == 2

SceneItems ==
    {Scene("s1", Some("Sofa"), TRUE, "g1"),
     Scene("s2", Some("Sofa"), TRUE, "g2"),
     Scene("s3", Some("Desk"), TRUE, "g1"),
     Scene("s4", None, TRUE, "g2"),
     Scene("s5", Some("Party"), FALSE, "g1")}
SpeakerGroups == {"g1", "g2", "g3"}
\* get_all_scenes answers a dict: the keys are distinct.
SceneDicts ==
    {q \in UNION {[1 .. n -> SceneItems] : n \in 0 .. MaxScenes} :
        \A i, j \in DOMAIN q : q[i].key = q[j].key => i = j}
PositionLabels == {"Sofa", "Desk", "Party"}

ModeItems ==
    {ListeningMode(1, "Speech"), ListeningMode(2, "Speech"),
     ListeningMode(1, "Movie")}
ModeIds == {1, 2, 3}
ModeLists ==
    {q \in UNION {[1 .. n -> ModeItems] : n \in 0 .. MaxModes} :
        \A i, j \in DOMAIN q : q[i].id = q[j].id => i = j}
ModeLabels == {SoundModeLabel(m) : m \in ModeItems}

InitSelect == Constructed({MaxLevel}, {1})

NextSelect ==
    \/ \E scenes \in SceneDicts, active \in SpeakerGroups :
           UpdateListeningPositions(scenes, active)
    \/ \E option \in PositionLabels : SelectListeningPosition(option)
    \/ \E modes \in ModeLists, active \in ModeIds :
           UpdateSoundModes(modes, active)
    \/ \E option \in ModeLabels : SelectSoundMode(option)

SpecSelect == InitSelect /\ [][NextSelect]_vars

\* The scenes of the latest refresh that are listening positions with a
\* label, and the first of them that carries a label.
IsPosition(scene) == scene.tagged /\ scene.label # None
FirstSeen(scenes, label) ==
    scenes[CHOOSE i \in DOMAIN scenes :
              /\ IsPosition(scenes[i])
              /\ scenes[i].label[1] = label
              /\ \A j \in DOMAIN scenes :
                     (IsPosition(scenes[j]) /\ scenes[j].label[1] = label)
                         => i <= j]
Occurrences(seq, x) == Cardinality({i \in DOMAIN seq : seq[i] = x})

\* C15: after a refresh of the listening positions every label carried by
\* a listening-position scene, also one carried by two scenes, is listed
\* once and is mapped to the first-seen scene of that label; selecting a
\* listed label triggers the scene the catalog maps it to.
C15_FirstSeenWins ==
    /\ last.op = "update_listening_positions" =>
           \A i \in DOMAIN last.args.scenes :
               LET scene == last.args.scenes[i]
               IN IsPosition(scene) =>
                      /\ Occurrences(selects.position_options,
                                     scene.label[1]) = 1
                      /\ Get(selects.listening_positions, scene.label[1])
                             = FirstSeen(last.args.scenes, scene.label[1]).key
    /\ last.op = "select_listening_position" =>
           calls = <<IdCall(SelectDevice, "post_scene_trigger",
                            Get(selects.listening_positions,
                                last.args.option))>>

\* A refresh with two listening positions of one label.
C15_Witness ==
    /\ last.op = "update_listening_positions"
    /\ \E i, j \in DOMAIN last.args.scenes :
           /\ i < j
           /\ IsPosition(last.args.scenes[i])
           /\ IsPosition(last.args.scenes[j])
           /\ last.args.scenes[i].label = last.args.scenes[j].label
           /\ Get(selects.listening_positions, last.args.scenes[i].label[1])
                  = last.args.scenes[i].key

\* The entries of a catalog, and the catalogs a response gives on its own.
Entries(od) == {od[i] : i \in DOMAIN od}
SourcesReported(response, menu) ==
    Merge(AudioSourcesOf(IF response.raised THEN FallbackSources
                         ELSE response.items),
          VideoSourcesOnto(<<>>, menu))
SoundModesReported(modes) ==
    SoundModesOnto([modes |-> <<>>, current |-> None], modes, 0).modes
PositionsReported(scenes) ==
    PositionsOnto([positions |-> <<>>, current |-> None], scenes, "").positions

C16_SourcesRebuilt ==
    last.op = "update_sources" =>
        Entries(sources[last.e])
            = Entries(SourcesReported(last.args.response, last.args.menu))
C16_SoundModesRebuilt ==
    last.op = "update_sound_modes" =>
        /\ Entries(selects.sound_modes)
               = Entries(SoundModesReported(last.args.modes))
        /\ selects.sound_options = Keys(SoundModesReported(last.args.modes))
C16_PositionsRebuilt ==
    last.op = "update_listening_positions" =>
        /\ Entries(selects.listening_positions)
               = Entries(PositionsReported(last.args.scenes))
        /\ selects.position_options
               = Keys(PositionsReported(last.args.scenes))

\* C16: after a refresh each catalog (the sources of the media player, the
\* sound modes, the listening positions) holds exactly the entries derived
\* from the response fetched for that refresh.
C16_CatalogsRebuilt ==
    /\ C16_SourcesRebuilt
    /\ C16_SoundModesRebuilt
    /\ C16_PositionsRebuilt

(***************************************************************************)
(* async_media_seek.  A position is a float of seconds; the positions      *)
(* explored are the multiples of 0.5, which doubles hold exactly, given as *)
(* their number of half seconds.                                           *)
(***************************************************************************)
\* int(position * 1000) and int(position)
PositionMs(halves) == halves * 500
PositionSeconds(halves) == halves \div 2

SeekAcceptedAnySource(e) == TRUE
SeekAccepted(e) == source(e) = SourceDeezer

AsyncMediaSeek(e, halves) ==
    /\ attached[e]
    /\ IF SeekAccepted(e)
       THEN /\ calls' = <<SeekCall(e, PositionMs(halves))>>
            /\ playback_progress' =
                   [playback_progress EXCEPT
                       ![e] = Some(PositionSeconds(halves))]
            /\ writes' = 1
       ELSE /\ calls' = <<>>
            /\ writes' = 0
            /\ UNCHANGED playback_progress
    /\ sent' = <<>>
    /\ last' = Last("media_seek", e, [position |-> halves])
    /\ UNCHANGED <<attached, config, volume, snapshot, beolink_state,
                   pending, clock, catalogs, selects, playback_state, state>>

(***************************************************************************)
(* Playback: the attach, the notifications of the device and the commands  *)
(* of the user on entity a.                                                *)
(***************************************************************************)
MaxProgress == 2
MaxSeek == 3

PlaybackMetadata ==
    {[title |-> "Song", art |-> "none", remote_leader |-> None],
     [title |-> "Song", art |-> "none", remote_leader |-> Some(Peer("b"))]}
PlaybackSources ==
    {[id |-> "deezer", name |-> SourceDeezer],
     [id |-> "chromeCast", name |-> SourceChromeCast],
     [id |-> SourceBluetooth, name |-> SourceBluetooth]}
Progresses == {Some(p) : p \in 0 .. MaxProgress}
RenderingStates == {Some(""), Some("playing"), Some("paused")}
PlaybackVolumes == {Some(0), Some(50)}

InitPlayback == Constructed({MaxLevel}, {1})

NextPlayback ==
    \/ \E level \in PlaybackVolumes \cup {None},
          md \in PlaybackMetadata \cup {EmptyMetadata},
          sc \in PlaybackSources \cup {EmptySource},
          progress \in Progresses \cup {None},
          pstate \in RenderingStates \cup {None} :
           InitializeWith("a", "Beosound A", level, md, sc, progress, pstate,
                          SourcesResponse(<<>>), <<>>, <<>>, <<>>)
    \/ \E data \in PlaybackMetadata :
           UpdatePlaybackMetadata("a", data, <<>>, <<>>)
    \/ \E data \in Progresses : UpdatePlaybackProgress("a", data)
    \/ \E data \in RenderingStates : UpdatePlaybackState("a", data)
    \/ \E data \in PlaybackSources : UpdateSourceChange("a", data)
    \/ \E data \in PlaybackVolumes : UpdateVolume("a", data)
    \/ \E halves \in 0 .. MaxSeek : AsyncMediaSeek("a", halves)
    \/ AsyncVolumeUp("a")

SpecPlayback == InitPlayback /\ [][NextPlayback]_vars

\* C17: a seek sends the seek command and replaces the stored progress
\* only when the current source is Deezer; on any other source it sends
\* nothing and changes nothing the entity stores.
C17_SeekOnlyOnDeezer ==
    [][last'.op = "media_seek" =>
          IF source(last'.e) = SourceDeezer
          THEN /\ calls' = <<SeekCall(last'.e,
                                      PositionMs(last'.args.position))>>
               /\ playback_progress'[last'.e]
                      = Some(PositionSeconds(last'.args.position))
               /\ writes' = 1
          ELSE /\ calls' = <<>>
               /\ writes' = 0
               /\ UNCHANGED stored]_vars

\* A seek accepted on Deezer and a seek refused on another source.
C17_Witness ==
    /\ last.op = "media_seek"
    /\ source(last.e) = SourceDeezer
    /\ calls # <<>>
    /\ playback_progress[last.e] = Some(1)
C17_WitnessRefused ==
    /\ last.op = "media_seek"
    /\ source(last.e) = SourceChromeCast
    /\ calls = <<>>

\* After a notification handler the field of its channel holds the
\* payload; after the attach every field holds what the product state
\* reported.
HandlerStoresPayload ==
    LET e == last.e
    IN /\ last.op = "update_playback_metadata" =>
              playback_metadata[e] = last.args.data
       /\ last.op = "update_playback_progress" =>
              playback_progress[e] = last.args.data
       /\ last.op = "update_playback_state" =>
              playback_state[e] = last.args.data
       /\ last.op = "update_source_change" =>
              source_change[e] = last.args.data
       /\ last.op = "update_volume" => volume[e] = last.args.data
       /\ last.op = "initialize" =>
              /\ playback_metadata[e] = last.args.product_state.metadata
              /\ playback_progress[e] = last.args.product_state.progress
              /\ playback_state[e] = last.args.product_state.state
              /\ source_change[e] = last.args.product_state.source
              /\ volume[e] = last.args.product_state.volume

\* A step changes a field only when it is the attach or the handler of
\* the field's channel; progressOps are the steps that may change the
\* progress.
ChangedByOwnHandler(progressOps) ==
    /\ playback_metadata' # playback_metadata =>
           last'.op \in {"initialize", "update_playback_metadata"}
    /\ playback_progress' # playback_progress => last'.op \in progressOps
    /\ playback_state' # playback_state =>
           last'.op \in {"initialize", "update_playback_state"}
    /\ source_change' # source_change =>
           last'.op \in {"initialize", "update_source_change"}
    /\ volume' # volume => last'.op \in {"initialize", "update_volume"}

\* C18 as stated: every field of the snapshot (metadata, progress,
\* rendering state, source, volume) holds the payload of the latest
\* notification of its own channel, or what the attach fetched, after any
\* sequence of notifications and commands.
C18_LatestPayloadAlways ==
    /\ []HandlerStoresPayload
    /\ [][ChangedByOwnHandler({"initialize", "update_playback_progress"})]_vars

\* C18: the same, except for the progress, which a seek accepted on Deezer
\* replaces by the sought position until the next progress notification.
C18_LatestPayloadUnlessSeek ==
    /\ []HandlerStoresPayload
    /\ [][ChangedByOwnHandler({"initialize", "update_playback_progress",
                               "media_seek"})]_vars

\* A seek has replaced the progress the device reported last.
C18_Witness ==
    /\ last.op = "media_seek"
    /\ playback_progress[last.e] = Some(0)
    /\ playback_state[last.e] = Some("playing")
    /\ volume[last.e] = Some(50)
    /\ calls # <<>>

\* The notification handlers that store a payload.
StoringHandlers ==
    {"update_playback_metadata", "update_playback_progress",
     "update_playback_state", "update_source_change", "update_volume"}

\* C19: every notification handler that stores a payload writes the state
\* of the entity afterwards, whatever the payload.
C19_HandlersWriteState ==
    last.op \in StoringHandlers => writes = 1

\* An entity no handler has run on holds what the constructor set.
AsConstructed(e) ==
    /\ volume[e] = None
    /\ playback_metadata[e] = EmptyMetadata
    /\ source_change[e] = EmptySource
    /\ playback_progress[e] = None
    /\ playback_state[e] = None
    /\ state[e] = "idle"
    /\ friendly_name[e] = ""
    /\ remote_leader[e] = None
    /\ beolink_listeners[e] = <<>>
    /\ attr_group_members[e] = <<>>
    /\ sources[e] = <<>>

\* The steps that are not a handler or a command of an entity.
NoHandler == {"construct", "undelivered"}

JoinJidInputs == {None, Some(Jid("b")), Some(InvalidJid)}

InitServices == Constructed({MaxLevel}, {1})

NextServices ==
    \/ \E level \in RelayLevels :
           Initialize("a", "Beosound A", level, EmptyMetadata, EmptySource,
                      <<>>, <<>>)
    \/ \E jids \in ExpandLists : AsyncBeolinkExpand("a", jids)
    \/ \E jids \in ExpandLists : AsyncBeolinkUnexpand("a", jids)
    \/ \E t \in 1 .. MaxTasks : BeolinkExpandStep(t)
    \/ \E t \in 1 .. MaxTasks : BeolinkUnexpandStep(t)
    \/ \E jid \in JoinJidInputs : AsyncBeolinkJoin("a", jid)
    \/ \E command \in LeaderCommands, parameter \in LeaderParameters :
           BeolinkLeaderCommand("a", command, parameter, bus, FALSE)
    \/ \E command \in LeaderCommands, parameter \in LeaderParameters :
           BeolinkListenerCommand("a", command, parameter, bus, FALSE)

SpecServices == InitServices /\ [][NextServices]_vars

\* Some identifier of the list is not a valid Beolink JID.
SomeInvalid(jids) == \E i \in DOMAIN jids : ~check_valid_jid(jids[i])

\* C21: malformed input to the Beolink services does nothing: an expand or
\* unexpand whose list holds an invalid identifier creates no task and
\* sends no request, also not for the valid identifiers before it; a join
\* with an invalid identifier sends no request; a leader or listener
\* command whose name is not an accepted command makes no vendor call and
\* no dispatch; none of them changes what the entity stores.
C21_MalformedInputIgnored ==
    [][(\/ /\ last'.op \in {"beolink_expand", "beolink_unexpand"}
           /\ SomeInvalid(last'.args.jids)
        \/ /\ last'.op = "beolink_join"
           /\ last'.args.jid # None
           /\ ~check_valid_jid(last'.args.jid[1])
        \/ /\ last'.op \in {"beolink_leader_command",
                            "beolink_listener_command"}
           /\ last'.args.command \notin AcceptedCommands)
          => (calls' = <<>> /\ sent' = <<>> /\ UNCHANGED stored)]_vars

\* An expand whose second identifier is invalid, after the first one, which
\* is valid: no task was created.
C21_Witness ==
    /\ last.op = "beolink_expand"
    /\ Len(last.args.jids) = 2
    /\ check_valid_jid(last.args.jids[1])
    /\ ~check_valid_jid(last.args.jids[2])
    /\ last.args.task = 0
    /\ calls = <<>>

\* The option list of each select is the list of the labels of its catalog.
OptionsAreCatalogLabels ==
    /\ selects.sound_options = Keys(selects.sound_modes)
    /\ selects.position_options = Keys(selects.listening_positions)

\* A selection sends one command with the key of the option and leaves the
\* select entities (catalogs, option lists, current options) as they were.
SelectionSendsKey ==
    /\ last'.op = "select_sound_mode" =>
           /\ InSeq(last'.args.option, selects.sound_options)
           /\ calls' = <<IdCall(last'.e, "activate_listening_mode",
                                Get(selects.sound_modes, last'.args.option))>>
           /\ UNCHANGED stored
    /\ last'.op = "select_listening_position" =>
           /\ InSeq(last'.args.option, selects.position_options)
           /\ calls' = <<IdCall(last'.e, "post_scene_trigger",
                                Get(selects.listening_positions,
                                    last'.args.option))>>
           /\ UNCHANGED stored

\* C22: selecting a listed option of the sound-mode or the
\* listening-position select sends exactly one vendor command with the key
\* the catalog maps to the option and changes neither the option list nor
\* the current option; in every reachable state the option list holds the
\* labels of the catalog, so every listed option has a key.
C22_SelectionSendsKeyOnly ==
    /\ []OptionsAreCatalogLabels
    /\ [][SelectionSendsKey]_vars

\* A sound mode that is not the current one was selected among two.
C22_Witness ==
    /\ last.op = "select_sound_mode"
    /\ Len(selects.sound_options) >= 2
    /\ selects.sound_current # None
    /\ selects.sound_current # Some(last.args.option)
    /\ Len(calls) = 1

(***************************************************************************)
(* SpecSync: the three entities attach as a leader with its fetched        *)
(* listener list, as a listener of the leader a, or solo, and the Beolink  *)
(* set-volume service is invoked on any of them while nothing is in        *)
(* flight; the dispatcher then delivers every message it holds.            *)
(***************************************************************************)
SyncTexts == {"0.50", "0.29"}
SyncMetadata(e) ==
    {EmptyMetadata}
    \cup (IF e = "a" THEN {}
          ELSE {[EmptyMetadata EXCEPT !.remote_leader = Some(Peer("a"))]})
SyncListeners(e) ==
    IF e = "a" THEN SeqsNoRepeat({Jid("b"), Jid("c")}, MaxList) ELSE {<<>>}

InitSync == Constructed({MaxLevel}, {1})

NextSync ==
    \/ \E e \in Entities : \E md \in SyncMetadata(e), fetched \in SyncListeners(e) : Initialize(e, PeerName(e), Some(50), md, EmptySource, <<>>, fetched)
    \/ \E e \in Entities, text \in SyncTexts : bus = <<>> /\ BeolinkSetVolume(e, text, bus, FALSE)
    \/ \E e \in Entities : DeliverVolume(e)
    \/ \E e \in Entities : DeliverListenerCommand(e)
    \/ DropUndelivered

\* The dispatcher schedules the callback of every message sent, in order.
FairSync ==
    /\ WF_vars(\E e \in Entities : DeliverVolume(e))
    /\ WF_vars(\E e \in Entities : DeliverListenerCommand(e))
    /\ WF_vars(DropUndelivered)

SpecSync == InitSync /\ [][NextSync]_vars /\ FairSync

\* The entity whose JID is jid.
EntityOf(jid) == CHOOSE e \in Entities : beolink_jid(e) = jid
\* The group led by ldr is formed: ldr and every listener it knows are
\* attached, each of them has ldr as its remote leader, and ldr knows
\* every entity that has ldr as its remote leader.
GroupFormed(ldr) ==
    /\ attached[ldr]
    /\ remote_leader[ldr] = None
    /\ beolink_listeners[ldr] # <<>>
    /\ \A i \in DOMAIN beolink_listeners[ldr] :
          /\ beolink_listeners[ldr][i] \in {beolink_jid(e) : e \in Entities}
          /\ attached[EntityOf(beolink_listeners[ldr][i])]
          /\ remote_leader[EntityOf(beolink_listeners[ldr][i])] # None
    /\ \A e \in Entities :
          (remote_leader[e] # None /\ remote_leader[e][1].jid = beolink_jid(ldr))
             <=> (attached[e] /\ InSeq(beolink_jid(e), beolink_listeners[ldr]))

\* The listener commands still to be delivered after the first n listeners
\* of ldr have had theirs.
FanOutAfter(ldr, n, text) ==
    [i \in 1 .. Len(beolink_listeners[ldr]) - n |->
        Msg(beolink_listeners[ldr][i + n], "listener_command",
            "set_volume_level", Some(StrParam(text)))]

\* Each step of a group-wide set-volume does what the relay needs: the
\* listener only forwards it to its leader, the leader sets its own volume
\* to Level(text) and sends one command per listener, and every listener,
\* in the leader's order, sets its own volume to Level(text); only the
\* leader's listeners receive a command.
SyncInOrder(Level(_)) ==
    /\ (/\ last.op = "beolink_set_volume"
        /\ ~last.args.relayed
        /\ remote_leader[last.e] # None)
       => /\ calls = <<>>
          /\ bus = <<Msg(remote_leader[last.e][1].jid, "volume", "",
                         Some(StrParam(last.args.text)))>>
    /\ (/\ last.op = "beolink_set_volume"
        /\ last.args.relayed
        /\ GroupFormed(last.e))
       => /\ calls = <<LevelCall(last.e, "set_current_volume_level",
                                 Level(last.args.text))>>
          /\ bus = FanOutAfter(last.e, 0, last.args.text)
    /\ (last.op = "beolink_listener_command" /\ last.args.relayed)
       => /\ \E ldr \in Entities :
                InSeq(beolink_jid(last.e), beolink_listeners[ldr])
          /\ \A ldr \in Entities : \A i \in DOMAIN beolink_listeners[ldr] :
                (/\ beolink_listeners[ldr][i] = beolink_jid(last.e)
                 /\ GroupFormed(ldr))
                => /\ calls = <<LevelCall(last.e, "set_current_volume_level",
                                          Level(last.args.parameter[1].text))>>
                   /\ bus = FanOutAfter(ldr, i, last.args.parameter[1].text)

\* A listener of a formed group has just invoked the service with text.
SyncStarted(e, ldr, text) ==
    /\ last = Last("beolink_set_volume", e, [text |-> text, relayed |-> FALSE])
    /\ remote_leader[e] # None
    /\ remote_leader[e][1].jid = beolink_jid(ldr)
    /\ GroupFormed(ldr)
\* The last listener of ldr has set its volume and nothing is left in
\* flight.
SyncFinished(ldr, text) ==
    /\ bus = <<>>
    /\ beolink_listeners[ldr] # <<>>
    /\ last = Last("beolink_listener_command",
                   EntityOf(beolink_listeners[ldr][Len(beolink_listeners[ldr])]),
                   [command |-> "set_volume_level",
                    parameter |-> Some(StrParam(text)), relayed |-> TRUE])
SyncCompletes ==
    \A e \in Entities, ldr \in Entities, text \in SyncTexts :
        SyncStarted(e, ldr, text) ~> SyncFinished(ldr, text)

\* float(v) * 100 as a level: the level that v denotes.
LevelDenoted(text) == FloatText[text]
\* The level async_set_volume_level sends for float(v).
LevelSent(text) == IntTimes100(FloatOfHundredths(FloatText[text]))

\* C23: when a listener of a formed group invokes the Beolink set-volume
\* service with v, then eventually the leader and every listener, the
\* initiator included, have each issued exactly one set-volume call with
\* level v, and no device outside the group has issued one.
C23_GroupSetToLevel == [](SyncInOrder(LevelDenoted)) /\ SyncCompletes
\* The same relay with the level each member actually sends, int(v * 100).
C23_GroupSetToSentLevel == [](SyncInOrder(LevelSent)) /\ SyncCompletes
C23_Witness ==
    /\ bus = <<>>
    /\ last.op = "beolink_listener_command"
    /\ last.args.relayed
    /\ last.e = "b"
    /\ beolink_listeners["a"] = <<Jid("c"), Jid("b")>>
    /\ GroupFormed("a")
    /\ calls = <<LevelCall("b", "set_current_volume_level", 50)>>
C23_WitnessTruncated ==
    /\ last.op = "beolink_listener_command"
    /\ last.args.relayed
    /\ GroupFormed("a")
    /\ calls = <<LevelCall(last.e, "set_current_volume_level", 28)>>

(***************************************************************************)
(* SpecNotify: entity a attaches and then receives metadata and            *)
(* source-change notifications in any order.  The artwork list of the      *)
(* metadata is absent ("none"), empty ("empty") or holds a cover.          *)
(***************************************************************************)
NotifyMetadata ==
    [title : {"Song", SourceLineIn, SourceBluetooth},
     art : {"none", "empty", "cover"},
     remote_leader : {None, Some(Peer("b"))}]
NotifySources ==
    {[id |-> SourceBluetooth, name |-> SourceBluetooth],
     [id |-> SourceLineIn, name |-> SourceLineIn],
     [id |-> SourceSpdif, name |-> SourceSpdif],
     [id |-> "bluetooth", name |-> SourceBluetooth],
     [id |-> "lineIn", name |-> SourceLineIn],
     [id |-> "uriStreamer", name |-> SourceUriStreamer],
     [id |-> "chromeCast", name |-> SourceChromeCast]}

InitNotify == Constructed({MaxLevel}, {1})

NextNotify ==
    \/ \E md \in NotifyMetadata \cup {EmptyMetadata}, sc \in NotifySources \cup {EmptySource} : InitializeWith("a", "Beosound A", Some(50), md, sc, Some(1), None, SourcesResponse(<<>>), <<>>, <<>>, <<>>)
    \/ \E data \in NotifyMetadata : UpdatePlaybackMetadata("a", data, <<>>, <<>>)
    \/ \E data \in NotifySources : UpdateSourceChange("a", data)

SpecNotify == InitNotify /\ [][NextNotify]_vars

TitleOverrides == {SourceLineIn, SourceBluetooth}
StaleSourceIds == {SourceBluetooth, SourceLineIn, SourceSpdif}
C24_WitnessNoArtwork ==
    /\ attached["a"]
    /\ playback_metadata["a"].title = "Song"
    /\ playback_metadata["a"].art = "empty"
    /\ source_change["a"] = [id |-> "bluetooth", name |-> SourceBluetooth]
    /\ source("a") = SourceBluetooth

\* C26: whenever the current source is line-in or the URI streamer, the
\* entity is not a listener: its stored remote leader is null, its group
\* members do not start with a leader, and its media position is reported.
C26_NeverListenerOnLineIn ==
    (attached["a"] /\ source("a") \in {SourceLineIn, SourceUriStreamer})
    => /\ remote_leader["a"] = None
       /\ attr_group_members["a"] = <<>>
             \/ attr_group_members["a"][1]
                   = get_entity_id_from_jid(beolink_jid("a"))
       /\ media_position("a") = playback_progress["a"]
\* What does hold: right after a metadata notification (or the attach) the
\* override has been applied.
C26_AppliedByBeolinkUpdate ==
    (attached["a"] /\ last.op # "update_source_change"
        /\ source("a") \in {SourceLineIn, SourceUriStreamer})
    => /\ remote_leader["a"] = None
       /\ media_position("a") = playback_progress["a"]

(***************************************************************************)
(* SpecRelayLive: SpecRelay with the dispatcher running the callback of    *)
(* every message it holds.                                                 *)
(***************************************************************************)
FairRelay ==
    /\ WF_vars(\E e \in RelayEntities : DeliverLeaderCommand(e))
    /\ WF_vars(\E e \in RelayEntities : DeliverListenerCommand(e))
    /\ WF_vars(\E e \in RelayEntities : DeliverVolume(e))
    /\ WF_vars(\E e \in RelayEntities : DeliverRelativeVolume(e))
    /\ WF_vars(DropUndelivered)

SpecRelayLive == SpecRelay /\ FairRelay

RelayServices ==
    {"beolink_set_volume", "beolink_set_relative_volume",
     "beolink_leader_command"}
\* Both entities have the other as their stored remote leader.
MutualLeaders ==
    \A e \in RelayEntities :
        /\ attached[e]
        /\ remote_leader[e] # None
        /\ remote_leader[e][1].jid = beolink_jid(RelayOther(e))

\* The stored remote leaders are assigned by the attach and by the metadata
\* notifications.
LeadersAssigned == last.op \in {"initialize", "update_playback_metadata"}

\* C25: whatever remote leaders the entities have stored, a leader command
\* or a volume command is forwarded along a finite chain: once a service
\* has put a message in flight, eventually nothing is in flight, unless
\* the remote leaders are assigned anew in between.
C25_NoCommandForwardedForever ==
    (last.op \in RelayServices /\ bus # <<>>)
        ~> (bus = <<>> \/ LeadersAssigned)
\* A command on its way between two entities that forward to each other.
C25_ForwardedBack ==
    /\ MutualLeaders
    /\ last.op \in RelayServices
    /\ last.args.relayed
    /\ Len(bus) = 1
    /\ bus[1].jid = beolink_jid(RelayOther(last.e))

\* The source_list property of the entity: the advertised labels.
source_list(e) == attr_source_list[e]

\* C27: after the attach, whatever refreshes of the source catalog have
\* happened, the advertised source list holds the labels of the current
\* source catalog: every advertised label is accepted by select-source and
\* every label select-source accepts is advertised.
C27_SourceListIsCatalog ==
    attached["a"]
    => /\ source_list("a") # None
       /\ \A label \in SourceLabels :
             InSeq(label, source_list("a")[1])
                <=> InSeq(label, Values(sources["a"]))
\* What does hold: the list is the catalog as it was at the attach.
C27_SourceListSetOnAttach ==
    [][last'.op = "initialize"
          => attr_source_list'[last'.e] = Some(Values(sources'[last'.e]))]_vars
    /\ [][last'.op # "initialize" => UNCHANGED attr_source_list]_vars

\* The current sound mode is unset or a listed option.
SoundModeListed ==
    \/ selects.sound_current = None
    \/ InSeq(selects.sound_current[1], selects.sound_options)
\* The current listening position is unset or a listed option, the label
\* of a listed scene of the latest refresh whose speaker group is active.
PositionListedAndActive ==
    \/ selects.position_current = None
    \/ /\ InSeq(selects.position_current[1], selects.position_options)
       /\ last.op = "update_listening_positions"
          => \E i \in DOMAIN last.args.scenes :
                /\ IsPosition(last.args.scenes[i])
                /\ last.args.scenes[i].label = selects.position_current
                /\ last.args.scenes[i].key
                      = Get(selects.listening_positions,
                            selects.position_current[1])
                /\ last.args.scenes[i].group = last.args.active

\* C28: whatever refreshes have happened, the current option of a select
\* entity is unset or one of its listed options; for the listening-position
\* select it is the label of a listed scene whose first action's speaker
\* group is the active speaker group of the latest refresh.
C28_CurrentOptionListed == SoundModeListed /\ PositionListedAndActive
\* The sound-mode select alone does keep its current option listed.
C28_SoundModeListed == [](SoundModeListed)
\* A current listening position that the latest refresh no longer lists.
C28_StalePosition ==
    /\ last.op = "update_listening_positions"
    /\ selects.position_current # None
    /\ ~InSeq(selects.position_current[1], selects.position_options)

\* The entity has a reported level at or above lowest, the property gives
\* level / 100 and a step request has issued one volume command.
LevelHandledFrom(lowest) ==
    (attached["a"] /\ volume["a"] # None /\ volume["a"][1] >= lowest)
    => /\ volume_level("a") = Some(FloatOfHundredths(volume["a"][1]))
       /\ last.op \in {"volume_up", "volume_down"}
          => /\ Len(calls) = 1
             /\ calls[1].call = "set_current_volume_level"

\* C29: for every reported level 0..100 the volume_level property is
\* level / 100, 0.0 at level 0 included, and a step-up or step-down request
\* issues a volume command at every reported level, level 0 included.
C29_EveryLevelHandled == LevelHandledFrom(0)
\* What does hold: the same from level 1 on.
C29_HandledAboveZero == [](LevelHandledFrom(1))
\* A step-up at reported level 0 that sent nothing.
C29_SilentAtZero ==
    /\ last.op = "volume_up"
    /\ volume["a"] = Some(0)
    /\ calls = <<>>
    /\ volume_level("a") = None

=============================================================================
